---- MODULE Spec2Model ----
(***************************************************************************)
(* Entity interaction layer of messy-game-raylib: the ball's ownership     *)
(* state, the snake boss (grid pathing, segments, grow/shrink), the        *)
(* win-hole state machine and the match/goal variant, driven frame by      *)
(* frame in the order of GameUpdate.                                       *)
(*                                                                         *)
(* Number representation.  The C code computes in float.  Lengths are      *)
(* modelled in tenths of a pixel (Px), velocities in tenths of a pixel per *)
(* frame, times in ticks of 0.05 s, health and XP in whole points (XP in   *)
(* hundredths).  Every constant keeps the name it has in the sources.      *)
(***************************************************************************)
EXTENDS Integers, Sequences, FiniteSets, TLC

(* ------------------------------------------------------------------ *)
(* Bounds of the model                                                 *)
(* ------------------------------------------------------------------ *)
\* Frame times GetFrameTime() may return, in ticks of 0.05 s.
DtSmall == 5
DtLarge == 20
\* Number of frames of GameUpdate a run is followed for.
MaxFrames == 6
\* Longest snake boss a game is started with.
MaxInitialLength == 4
\* The debug keys of MatchUpdate are pressed only while fewer goals than
\* this have been scored.
MaxGoals == 1

(* ------------------------------------------------------------------ *)
(* Program constants                                                   *)
(* ------------------------------------------------------------------ *)
WORLD_WIDTH == 25
WORLD_HEIGHT == 40
TILE_WIDTH == 25
TILE_HEIGHT == 25
SPRITE_WIDTH == 25
SPRITE_HEIGHT == 25
BALL_RADIUS == 5
BALL_INITIAL_SPEED == 2
BALL_MAX_SPEED == 8
PLAYER_PUSH_FORCE == 5
\* 0.8f and 0.98f, in hundredths
BALL_BOUNCE_FACTOR == 80
BALL_FRICTION == 98
\* 7.0f, 1.5f and 2.5f px per frame, in tenths
PLAYER_ACCEL == 70
PLAYER_MAX_SPEED == 15
PLAYER_DECEL == 25
WIN_HOLE_RADIUS == 15
\* 1.0f and 0.5f, in tenths
WIN_HOLE_DEFAULT_X == 10
WIN_HOLE_DEFAULT_Y == 5
WIN_PLAYER_SEGMENTS_SNAKEBOSS == 3
WIN_ENEMY_DAMAGE_TO_PLAYER == 30
\* 2.0 s, in ticks
WIN_NEUTRAL_BALL_HOLD_TIME == 40
\* 0.2 s, 0.05 s, 0.05 s, 2.0 s, 2.0 s in ticks
SNAKE_INITIAL_MOVE_INTERVAL == 4
SNAKE_MIN_MOVE_INTERVAL == 1
SNAKE_INTERVAL_DECREASE == 1
SNAKE_GROW_TIME == 40
SNAKE_SHRINK_TIME == 40
SNAKE_SEGMENT_WIDTH_TILES == 2
SNAKE_SEGMENT_HEIGHT_TILES == 2

\* A length in pixels, in model units (tenths of a pixel).
Px(n) == 10 * n
\* Half of a length in pixels, in model units.
HalfPx(n) == 5 * n

SNAKE_SEGMENT_WIDTH == TILE_WIDTH * SNAKE_SEGMENT_WIDTH_TILES
SNAKE_SEGMENT_HEIGHT == TILE_HEIGHT * SNAKE_SEGMENT_HEIGHT_TILES
\* ((W + H) / 4.0f * 1.5f) px = 37.5 px, in model units
SNAKE_HEAD_RADIUS == (Px(SNAKE_SEGMENT_WIDTH + SNAKE_SEGMENT_HEIGHT) * 15) \div 40

\* Direction (entity.h)
DIRECTION_DOWN == "DOWN"
DIRECTION_UP == "UP"
DIRECTION_LEFT == "LEFT"
DIRECTION_RIGHT == "RIGHT"

\* SnakeBossState (snake_boss.h)
SNAKE_STATE_IDLE == "IDLE"
SNAKE_STATE_TRACKING == "TRACKING"
SNAKE_STATE_MOVING == "MOVING"
SNAKE_STATE_GROWING == "GROWING"
SNAKE_STATE_SHRINKING == "SHRINKING"
SNAKE_STATE_DEFEATED == "DEFEATED"

\* BallState (ball.h).  BALL_STATE_OTHER stands for any bit pattern of the
\* enum field that is none of the three enumerators.
BALL_STATE_NEUTRAL == "NEUTRAL"
BALL_STATE_PLAYER == "PLAYER"
BALL_STATE_SNAKE == "SNAKE"
BALL_STATE_OTHER == "OTHER"

(* ------------------------------------------------------------------ *)
(* Arithmetic helpers                                                  *)
(* ------------------------------------------------------------------ *)
Abs(n) == IF n < 0 THEN -n ELSE n
Min(a, b) == IF a < b THEN a ELSE b
Max(a, b) == IF a > b THEN a ELSE b
\* C conversion (int)(a / b) for b > 0: truncation toward zero.
TruncDiv(a, b) == IF a >= 0 THEN a \div b ELSE -((-a) \div b)
Sq(n) == n * n

(* ------------------------------------------------------------------ *)
(* World query                                                         *)
(* ------------------------------------------------------------------ *)
\* Fault variant of WorldIsWallAtPosition: the bounds of the grid are not
\* checked.
WorldIsWallInsideOnly(x, y) ==
    LET tileX == TruncDiv(x, Px(TILE_WIDTH))
        tileY == TruncDiv(y, Px(TILE_HEIGHT))
        centerX == WORLD_WIDTH \div 2
        centerY == WORLD_HEIGHT \div 2
    IN  \/ tileX = 0 \/ tileY = 0
        \/ tileX = WORLD_WIDTH - 1 \/ tileY = WORLD_HEIGHT - 1
        \/ tileY = centerY /\ Abs(tileX - centerX) <= 5
        \/ tileX = centerX - 10 /\ Abs(tileY - centerY) <= 3
        \/ tileX = centerX + 10 /\ Abs(tileY - centerY) <= 3

\* world.c WorldIsWallAtPosition, x and y in model units.
WorldIsWallAtPosition(x, y) ==
    LET tileX == TruncDiv(x, Px(TILE_WIDTH))
        tileY == TruncDiv(y, Px(TILE_HEIGHT))
        centerX == WORLD_WIDTH \div 2
        centerY == WORLD_HEIGHT \div 2
    IN  IF tileX < 0 \/ tileX >= WORLD_WIDTH \/ tileY < 0 \/ tileY >= WORLD_HEIGHT
        THEN TRUE
        ELSE IF tileX = 0 \/ tileY = 0 \/ tileX = WORLD_WIDTH - 1 \/ tileY = WORLD_HEIGHT - 1
        THEN TRUE
        ELSE IF tileY = centerY /\ Abs(tileX - centerX) <= 5
        THEN TRUE
        ELSE IF tileX = centerX - 10 /\ Abs(tileY - centerY) <= 3
        THEN TRUE
        ELSE IF tileX = centerX + 10 /\ Abs(tileY - centerY) <= 3
        THEN TRUE
        ELSE FALSE

(* ------------------------------------------------------------------ *)
(* Snake boss                                                          *)
(* ------------------------------------------------------------------ *)
\* One SnakeSegment as SnakeBossCreate initialises it.
CreateSegment(gx, gy) ==
    [gridX |-> gx, gridY |-> gy,
     worldX |-> gx * Px(TILE_WIDTH) + HalfPx(TILE_WIDTH),
     worldY |-> gy * Px(TILE_HEIGHT) + HalfPx(TILE_HEIGHT)]

\* snake_boss.c SnakeBossCreate.  segments holds the live slots
\* 1..segmentCount of the C array (index 0 of the array is index 1 here);
\* slots past segmentCount are never read by the code.
SnakeBossCreate(gridX, gridY, initialLength) ==
    [state |-> SNAKE_STATE_IDLE,
     currentDir |-> DIRECTION_RIGHT,
     nextDir |-> DIRECTION_RIGHT,
     moveTimer |-> 0,
     moveInterval |-> SNAKE_INITIAL_MOVE_INTERVAL,
     growTimer |-> 0,
     shrinkTimer |-> 0,
     hasTarget |-> FALSE,
     targetGridX |-> gridX,
     targetGridY |-> gridY,
     segmentCapacity |-> IF initialLength > 0 THEN initialLength ELSE 1,
     segmentCount |-> initialLength,
     segments |-> [i \in 1..initialLength |-> CreateSegment(gridX - (i - 1), gridY)],
     x |-> gridX * Px(TILE_WIDTH) + HalfPx(TILE_WIDTH),
     y |-> gridY * Px(TILE_HEIGHT) + HalfPx(TILE_HEIGHT)]

\* Fault variant of SnakeBossIsValidPosition: the self-collision loop
\* starts one segment too late and misses the segment behind the head.
SnakeBossIsValidPositionSkipsNeck(b, gridX, gridY) ==
    LET worldX == gridX * Px(TILE_WIDTH) + HalfPx(TILE_WIDTH)
        worldY == gridY * Px(TILE_HEIGHT) + HalfPx(TILE_HEIGHT)
    IN  IF WorldIsWallAtPosition(worldX, worldY)
        THEN FALSE
        ELSE \A i \in 3..b.segmentCount :
                ~(b.segments[i].gridX = gridX /\ b.segments[i].gridY = gridY)

\* snake_boss.c SnakeBossIsValidPosition
SnakeBossIsValidPosition(b, gridX, gridY) ==
    LET worldX == gridX * Px(TILE_WIDTH) + HalfPx(TILE_WIDTH)
        worldY == gridY * Px(TILE_HEIGHT) + HalfPx(TILE_HEIGHT)
    IN  IF WorldIsWallAtPosition(worldX, worldY)
        THEN FALSE
        ELSE \A i \in 2..b.segmentCount :
                ~(b.segments[i].gridX = gridX /\ b.segments[i].gridY = gridY)

\* The neighbour cell of (gx, gy) in direction d (the switch of
\* SnakeBossMove and the four blocks of SnakeBossFindPath).
StepCell(gx, gy, d) ==
    CASE d = DIRECTION_UP -> [x |-> gx, y |-> gy - 1]
      [] d = DIRECTION_DOWN -> [x |-> gx, y |-> gy + 1]
      [] d = DIRECTION_LEFT -> [x |-> gx - 1, y |-> gy]
      [] d = DIRECTION_RIGHT -> [x |-> gx + 1, y |-> gy]

\* The switch of SnakeBossFindPath that yields oppositeDir.
OppositeDir(d) ==
    CASE d = DIRECTION_UP -> DIRECTION_DOWN
      [] d = DIRECTION_DOWN -> DIRECTION_UP
      [] d = DIRECTION_LEFT -> DIRECTION_RIGHT
      [] d = DIRECTION_RIGHT -> DIRECTION_LEFT

\* directions[4] of SnakeBossFindPath, in evaluation order.
PathDirections == <<DIRECTION_UP, DIRECTION_RIGHT, DIRECTION_DOWN, DIRECTION_LEFT>>

\* Fault variant of PathValid: the reversal is not excluded.
PathValidWithReversal(b, d) ==
    LET c == StepCell(b.segments[1].gridX, b.segments[1].gridY, d)
    IN  SnakeBossIsValidPosition(b, c.x, c.y)

\* validDirs[i] of SnakeBossFindPath.
PathValid(b, d) ==
    LET c == StepCell(b.segments[1].gridX, b.segments[1].gridY, d)
    IN  SnakeBossIsValidPosition(b, c.x, c.y) /\ d # OppositeDir(b.currentDir)

\* Fault variant of PathDist: the distance is taken from the head, not from
\* the neighbour cell.
PathDistFromHead(b, d, targetGridX, targetGridY) ==
    Abs(targetGridX - b.segments[1].gridX) + Abs(targetGridY - b.segments[1].gridY)

\* newDists[i] of SnakeBossFindPath.
PathDist(b, d, targetGridX, targetGridY) ==
    LET c == StepCell(b.segments[1].gridX, b.segments[1].gridY, d)
    IN  Abs(targetGridX - c.x) + Abs(targetGridY - c.y)

\* Fault variant of PathLoop: a candidate at the same distance as the best
\* one so far replaces it, so that the later one wins a tie.
RECURSIVE PathLoopLaterWins(_, _, _, _, _)
PathLoopLaterWins(b, targetGridX, targetGridY, i, acc) ==
    IF i > 4 THEN acc
    ELSE LET d == PathDirections[i]
             dist == PathDist(b, d, targetGridX, targetGridY)
             take == PathValid(b, d) /\ (~acc.foundValid \/ dist <= acc.bestDist)
         IN  PathLoopLaterWins(b, targetGridX, targetGridY, i + 1,
                               IF take
                               THEN [bestDir |-> d, bestDist |-> dist, foundValid |-> TRUE]
                               ELSE acc)

\* The selection loop of SnakeBossFindPath from index i on, with the
\* accumulator acc = [bestDir, bestDist, foundValid].
RECURSIVE PathLoop(_, _, _, _, _)
PathLoop(b, targetGridX, targetGridY, i, acc) ==
    IF i > 4 THEN acc
    ELSE LET d == PathDirections[i]
             dist == PathDist(b, d, targetGridX, targetGridY)
             take == PathValid(b, d) /\ (~acc.foundValid \/ dist < acc.bestDist)
         IN  PathLoop(b, targetGridX, targetGridY, i + 1,
                      IF take
                      THEN [bestDir |-> d, bestDist |-> dist, foundValid |-> TRUE]
                      ELSE acc)

\* Fault variant of SnakeBossFindPath: without a valid candidate the boss
\* is turned back the way it came.
SnakeBossFindPathTurnsBack(b, targetGridX, targetGridY) ==
    IF b.segmentCount <= 0 THEN b
    ELSE LET r == PathLoop(b, targetGridX, targetGridY, 1,
                           [bestDir |-> b.currentDir, bestDist |-> 999999,
                            foundValid |-> FALSE])
         IN  IF r.foundValid THEN [b EXCEPT !.nextDir = r.bestDir]
             ELSE [b EXCEPT !.nextDir = OppositeDir(b.currentDir)]

\* snake_boss.c SnakeBossFindPath
SnakeBossFindPath(b, targetGridX, targetGridY) ==
    IF b.segmentCount <= 0 THEN b
    ELSE LET r == PathLoop(b, targetGridX, targetGridY, 1,
                           [bestDir |-> b.currentDir, bestDist |-> 999999,
                            foundValid |-> FALSE])
         IN  IF r.foundValid THEN [b EXCEPT !.nextDir = r.bestDir] ELSE b

\* snake_boss.c SnakeBossUpdateSegments
SnakeBossUpdateSegments(b) ==
    LET segs == [i \in 1..b.segmentCount |->
                    [b.segments[i] EXCEPT
                       !.worldX = b.segments[i].gridX * Px(TILE_WIDTH)
                                  + HalfPx(SNAKE_SEGMENT_WIDTH_TILES * TILE_WIDTH),
                       !.worldY = b.segments[i].gridY * Px(TILE_HEIGHT)
                                  + HalfPx(SNAKE_SEGMENT_HEIGHT_TILES * TILE_HEIGHT)]]
    IN  IF b.segmentCount > 0
        THEN [b EXCEPT !.segments = segs, !.x = segs[1].worldX, !.y = segs[1].worldY]
        ELSE b

\* Fault variant of SnakeBossMove: the head steps on, the body stays where
\* it is.
SnakeBossMoveHeadOnly(b) ==
    IF b.segmentCount <= 0 THEN [moved |-> FALSE, boss |-> b]
    ELSE LET c == StepCell(b.segments[1].gridX, b.segments[1].gridY, b.currentDir)
         IN  IF ~SnakeBossIsValidPosition(b, c.x, c.y)
             THEN [moved |-> FALSE, boss |-> b]
             ELSE [moved |-> TRUE,
                   boss |-> SnakeBossUpdateSegments(
                              [b EXCEPT !.segments[1].gridX = c.x,
                                        !.segments[1].gridY = c.y])]

\* Fault variant of SnakeBossMove: only a wall blocks the step, a body
\* segment does not.
SnakeBossMoveThroughBody(b) ==
    IF b.segmentCount <= 0 THEN [moved |-> FALSE, boss |-> b]
    ELSE LET c == StepCell(b.segments[1].gridX, b.segments[1].gridY, b.currentDir)
         IN  IF WorldIsWallAtPosition(c.x * Px(TILE_WIDTH) + HalfPx(TILE_WIDTH),
                                      c.y * Px(TILE_HEIGHT) + HalfPx(TILE_HEIGHT))
             THEN [moved |-> FALSE, boss |-> b]
             ELSE LET shifted ==
                        [i \in 1..b.segmentCount |->
                            IF i = 1
                            THEN [b.segments[1] EXCEPT !.gridX = c.x, !.gridY = c.y]
                            ELSE [b.segments[i] EXCEPT
                                    !.gridX = b.segments[i - 1].gridX,
                                    !.gridY = b.segments[i - 1].gridY]]
                  IN  [moved |-> TRUE,
                       boss |-> SnakeBossUpdateSegments([b EXCEPT !.segments = shifted])]

\* snake_boss.c SnakeBossMove: [moved, boss]
SnakeBossMove(b) ==
    IF b.segmentCount <= 0 THEN [moved |-> FALSE, boss |-> b]
    ELSE LET c == StepCell(b.segments[1].gridX, b.segments[1].gridY, b.currentDir)
         IN  IF ~SnakeBossIsValidPosition(b, c.x, c.y)
             THEN [moved |-> FALSE, boss |-> b]
             ELSE LET shifted ==
                        [i \in 1..b.segmentCount |->
                            IF i = 1
                            THEN [b.segments[1] EXCEPT !.gridX = c.x, !.gridY = c.y]
                            ELSE [b.segments[i] EXCEPT
                                    !.gridX = b.segments[i - 1].gridX,
                                    !.gridY = b.segments[i - 1].gridY]]
                  IN  [moved |-> TRUE,
                       boss |-> SnakeBossUpdateSegments([b EXCEPT !.segments = shifted])]

\* Fault variant of SnakeBossGrow: a full array is enlarged by one slot.
SnakeBossGrowByOneSlot(b, allocOk) ==
    IF b.segmentCount >= b.segmentCapacity /\ ~allocOk THEN b
    ELSE LET cap == IF b.segmentCount >= b.segmentCapacity
                    THEN b.segmentCapacity + 1 ELSE b.segmentCapacity
         IN  IF b.segmentCount > 0
             THEN [b EXCEPT
                     !.segmentCapacity = cap,
                     !.segments = Append(b.segments, b.segments[b.segmentCount]),
                     !.segmentCount = b.segmentCount + 1,
                     !.moveInterval = Max(SNAKE_MIN_MOVE_INTERVAL,
                                          b.moveInterval - SNAKE_INTERVAL_DECREASE)]
             ELSE [b EXCEPT !.segmentCapacity = cap]

\* Fault variant of SnakeBossGrow: the new segment is a copy of the head.
SnakeBossGrowCopiesHead(b, allocOk) ==
    IF b.segmentCount >= b.segmentCapacity /\ ~allocOk THEN b
    ELSE LET cap == IF b.segmentCount >= b.segmentCapacity
                    THEN b.segmentCapacity * 2 ELSE b.segmentCapacity
         IN  IF b.segmentCount > 0
             THEN [b EXCEPT
                     !.segmentCapacity = cap,
                     !.segments = Append(b.segments, b.segments[1]),
                     !.segmentCount = b.segmentCount + 1,
                     !.moveInterval = Max(SNAKE_MIN_MOVE_INTERVAL,
                                          b.moveInterval - SNAKE_INTERVAL_DECREASE)]
             ELSE [b EXCEPT !.segmentCapacity = cap]

\* snake_boss.c SnakeBossGrow; allocOk is the outcome of malloc when the
\* array has to be enlarged.
SnakeBossGrow(b, allocOk) ==
    IF b.segmentCount >= b.segmentCapacity /\ ~allocOk THEN b
    ELSE LET cap == IF b.segmentCount >= b.segmentCapacity
                    THEN b.segmentCapacity * 2 ELSE b.segmentCapacity
         IN  IF b.segmentCount > 0
             THEN [b EXCEPT
                     !.segmentCapacity = cap,
                     !.segments = Append(b.segments, b.segments[b.segmentCount]),
                     !.segmentCount = b.segmentCount + 1,
                     !.moveInterval = Max(SNAKE_MIN_MOVE_INTERVAL,
                                          b.moveInterval - SNAKE_INTERVAL_DECREASE)]
             ELSE [b EXCEPT !.segmentCapacity = cap]

\* Fault variant of SnakeBossShrink: the guard is off by one, so the head
\* itself is removed.
SnakeBossShrinkRemovesHead(b) ==
    IF b.segmentCount <= 0 THEN [ok |-> FALSE, boss |-> b]
    ELSE [ok |-> TRUE,
          boss |-> [b EXCEPT
                      !.segmentCount = b.segmentCount - 1,
                      !.segments = SubSeq(b.segments, 1, b.segmentCount - 1),
                      !.moveInterval = Min(SNAKE_INITIAL_MOVE_INTERVAL,
                                           b.moveInterval + SNAKE_INTERVAL_DECREASE)]]

\* snake_boss.c SnakeBossShrink: [ok, boss]; ok is the return value.
SnakeBossShrink(b) ==
    IF b.segmentCount <= 1 THEN [ok |-> FALSE, boss |-> b]
    ELSE [ok |-> TRUE,
          boss |-> [b EXCEPT
                      !.segmentCount = b.segmentCount - 1,
                      !.segments = SubSeq(b.segments, 1, b.segmentCount - 1),
                      !.moveInterval = Min(SNAKE_INITIAL_MOVE_INTERVAL,
                                           b.moveInterval + SNAKE_INTERVAL_DECREASE)]]

(* ------------------------------------------------------------------ *)
(* Ball                                                                *)
(* ------------------------------------------------------------------ *)
\* Least r >= 0 with r * r >= n, searched in lo..hi (sqrtf, rounded up).
RECURSIVE SqrtSearch(_, _, _)
SqrtSearch(n, lo, hi) ==
    IF lo >= hi THEN lo
    ELSE LET mid == (lo + hi) \div 2
         IN  IF mid * mid >= n THEN SqrtSearch(n, lo, mid)
             ELSE SqrtSearch(n, mid + 1, hi)
Sqrt(n) == SqrtSearch(n, 0, 40000)

\* ball.c BallCreate; state is not assigned there, st is the value the
\* malloc'ed field happens to hold.
BallCreate(x, y, st) ==
    [x |-> x, y |-> y, speedX |-> 0, speedY |-> 0, active |-> TRUE, state |-> st]

\* The speed cap at the end of BallApplyForce and BallHandlePlayerCollision.
CapBallSpeed(ball) ==
    LET magSq == Sq(ball.speedX) + Sq(ball.speedY)
        mag == Sqrt(magSq)
    IN  IF magSq > Sq(Px(BALL_MAX_SPEED))
        THEN [ball EXCEPT !.speedX = TruncDiv(ball.speedX * Px(BALL_MAX_SPEED), mag),
                          !.speedY = TruncDiv(ball.speedY * Px(BALL_MAX_SPEED), mag)]
        ELSE ball

\* ball.c BallApplyForce
BallApplyForce(ball, forceX, forceY) ==
    IF ~ball.active THEN ball
    ELSE CapBallSpeed([ball EXCEPT !.speedX = ball.speedX + forceX,
                                   !.speedY = ball.speedY + forceY])

\* ball.c BallReset
BallReset(ball, x, y) ==
    [ball EXCEPT !.x = x, !.y = y, !.speedX = 0, !.speedY = 0, !.active = TRUE]

(* ------------------------------------------------------------------ *)
(* Player                                                              *)
(* ------------------------------------------------------------------ *)
PLAYER_STATE_ALIVE == "ALIVE"
PLAYER_STATE_DYING == "DYING"
PLAYER_STATE_DEAD == "DEAD"
\* player.h, in hundredths of an XP point: 110.0f, 100.0f
PLAYER_XP_PER_HIT == 11000
PLAYER_BASE_MAX_XP == 10000
\* 2.0 s and 5.0 s in ticks
PLAYER_DEATH_DURATION == 40
DEATH_SCREEN_DURATION == 100

\* player.c PlayerCreate
PlayerCreate(x, y) ==
    [x |-> x, y |-> y, speedX |-> 0, speedY |-> 0,
     level |-> 1, moveSpeed |-> 10, maxHealth |-> 100, currentHealth |-> 100,
     currentXP |-> 0, maxXP |-> PLAYER_BASE_MAX_XP,
     state |-> PLAYER_STATE_ALIVE, deathTimer |-> 0]

\* player.c PlayerAwardXP (maxXP *= 1.1f, truncated to hundredths)
PlayerAwardXP(p, xpAmount) ==
    IF p.state # PLAYER_STATE_ALIVE THEN p
    ELSE LET xp == p.currentXP + xpAmount
         IN  IF xp >= p.maxXP
             THEN [p EXCEPT !.level = p.level + 1,
                            !.currentXP = xp - p.maxXP,
                            !.maxXP = (p.maxXP * 11) \div 10,
                            !.moveSpeed = p.moveSpeed + 5,
                            !.maxHealth = p.maxHealth + 10,
                            !.currentHealth = p.maxHealth + 10]
             ELSE [p EXCEPT !.currentXP = xp]

\* player.c PlayerReset
PlayerReset(p, x, y) ==
    [p EXCEPT !.x = x, !.y = y, !.speedX = 0, !.speedY = 0,
              !.state = PLAYER_STATE_ALIVE, !.deathTimer = 0,
              !.currentHealth = p.maxHealth]

(* ------------------------------------------------------------------ *)
(* Snake boss collisions                                               *)
(* ------------------------------------------------------------------ *)
\* raylib CheckCollisionCircleRec as called at snake_boss.c:714, for the
\* rectangle of width w and height h centred on (cx, cy).
CheckCollisionCircleRec(px, py, radius, cx, cy, w, h) ==
    LET dx == Abs(px - cx)
        dy == Abs(py - cy)
    IN  IF dx > w \div 2 + radius \/ dy > h \div 2 + radius THEN FALSE
        ELSE IF dx <= w \div 2 \/ dy <= h \div 2 THEN TRUE
        ELSE Sq(dx - w \div 2) + Sq(dy - h \div 2) <= Sq(radius)

\* raylib CheckCollisionRecs as called at snake_boss.c:806, for two
\* rectangles given by centre and size.
CheckCollisionRecs(ax, ay, aw, ah, bx, by, bw, bh) ==
    /\ 2 * ax - aw < 2 * bx + bw /\ 2 * ax + aw > 2 * bx - bw
    /\ 2 * ay - ah < 2 * by + bh /\ 2 * ay + ah > 2 * by - bh

\* The head test of SnakeBossHandleBallCollision (snake_boss.c:642-647).
BallHitsHead(b, ball) ==
    Sq(ball.x - b.segments[1].worldX) + Sq(ball.y - b.segments[1].worldY)
        < Sq(SNAKE_HEAD_RADIUS + Px(BALL_RADIUS))

\* The body-segment test of SnakeBossHandleBallCollision for segment i.
BallHitsSegment(b, ball, i) ==
    CheckCollisionCircleRec(ball.x, ball.y, Px(BALL_RADIUS),
                            b.segments[i].worldX, b.segments[i].worldY,
                            Px(SNAKE_SEGMENT_WIDTH), Px(SNAKE_SEGMENT_HEIGHT))

\* Fault variant of ShrinkOnHit: the hit shrinks the boss in every state,
\* also while it is shrinking or defeated.
ShrinkOnHitInEveryState(b, ball, player, fromX, fromY) ==
    LET r == SnakeBossShrink([b EXCEPT !.state = SNAKE_STATE_SHRINKING,
                                       !.shrinkTimer = 0])
    IN  [boss |-> IF r.ok THEN r.boss
                  ELSE [r.boss EXCEPT !.state = SNAKE_STATE_DEFEATED],
         ball |-> BallApplyForce(ball, TruncDiv((ball.x - fromX) * 5, 10),
                                       TruncDiv((ball.y - fromY) * 5, 10)),
         player |-> PlayerAwardXP(player, PLAYER_XP_PER_HIT)]

\* Fault variant of ShrinkOnHit: the return value of SnakeBossShrink is
\* ignored, so a boss that cannot shrink is left shrinking.
ShrinkOnHitIgnoresResult(b, ball, player, fromX, fromY) ==
    IF b.state # SNAKE_STATE_SHRINKING /\ b.state # SNAKE_STATE_DEFEATED
    THEN [boss |-> SnakeBossShrink([b EXCEPT !.state = SNAKE_STATE_SHRINKING,
                                             !.shrinkTimer = 0]).boss,
          ball |-> BallApplyForce(ball, TruncDiv((ball.x - fromX) * 5, 10),
                                        TruncDiv((ball.y - fromY) * 5, 10)),
          player |-> PlayerAwardXP(player, PLAYER_XP_PER_HIT)]
    ELSE [boss |-> b, ball |-> ball, player |-> player]

\* The shrink branch shared by the head hit (snake_boss.c:651-671) and the
\* body hit (snake_boss.c:716-736); (fromX, fromY) is the head or segment
\* the ball bounces off.
ShrinkOnHit(b, ball, player, fromX, fromY) ==
    IF b.state # SNAKE_STATE_SHRINKING /\ b.state # SNAKE_STATE_DEFEATED
    THEN LET r == SnakeBossShrink([b EXCEPT !.state = SNAKE_STATE_SHRINKING,
                                            !.shrinkTimer = 0])
         IN  [boss |-> IF r.ok THEN r.boss
                       ELSE [r.boss EXCEPT !.state = SNAKE_STATE_DEFEATED],
              ball |-> BallApplyForce(ball, TruncDiv((ball.x - fromX) * 5, 10),
                                            TruncDiv((ball.y - fromY) * 5, 10)),
              player |-> PlayerAwardXP(player, PLAYER_XP_PER_HIT)]
    ELSE [boss |-> b, ball |-> ball, player |-> player]

\* Fault variant of GrowOnHit: the hit grows the boss in every state, also
\* while it is growing.
GrowOnHitInEveryState(b, ball, player, allocOk) ==
    LET headX == b.segments[1].worldX
        headY == b.segments[1].worldY
    IN  [boss |-> SnakeBossGrow([b EXCEPT !.state = SNAKE_STATE_GROWING,
                                          !.growTimer = 0], allocOk),
         ball |-> [BallApplyForce(ball, (ball.x - headX) * 6, (ball.y - headY) * 6)
                     EXCEPT !.state = BALL_STATE_SNAKE],
         player |-> player]

\* The grow branch of the head hit (snake_boss.c:673-694).
GrowOnHit(b, ball, player, allocOk) ==
    IF b.state # SNAKE_STATE_GROWING
    THEN LET headX == b.segments[1].worldX
             headY == b.segments[1].worldY
         IN  [boss |-> SnakeBossGrow([b EXCEPT !.state = SNAKE_STATE_GROWING,
                                               !.growTimer = 0], allocOk),
              ball |-> [BallApplyForce(ball, (ball.x - headX) * 6, (ball.y - headY) * 6)
                          EXCEPT !.state = BALL_STATE_SNAKE],
              player |-> player]
    ELSE [boss |-> b, ball |-> ball, player |-> player]

\* Index of the first body segment from i on that the ball overlaps, or 0.
RECURSIVE FirstSegmentHit(_, _, _)
FirstSegmentHit(b, ball, i) ==
    IF i > b.segmentCount THEN 0
    ELSE IF BallHitsSegment(b, ball, i) THEN i
    ELSE FirstSegmentHit(b, ball, i + 1)

\* return true of SnakeBossHandleBallCollision, with what the branch taken,
\* whose result is r, has left.
CollisionHandled(r) ==
    [hit |-> TRUE, boss |-> r.boss, ball |-> r.ball, player |-> r.player]

\* The body-segment loop of SnakeBossHandleBallCollision, given the index i
\* of the first segment the ball overlaps (0: none).
BodyCollision(b, ball, player, i) ==
    IF i = 0
    THEN [hit |-> FALSE, boss |-> b, ball |-> ball, player |-> player]
    ELSE CollisionHandled(ShrinkOnHit(b, ball, player,
                                      b.segments[i].worldX, b.segments[i].worldY))

\* Fault variant of SnakeBossHandleBallCollision: the body segments are
\* tested for a ball of any ownership.
SnakeBossHandleBallCollisionAnyOwner(b, ball, player, allocOk) ==
    IF b.segmentCount <= 0
    THEN [hit |-> FALSE, boss |-> b, ball |-> ball, player |-> player]
    ELSE IF BallHitsHead(b, ball)
    THEN CollisionHandled(IF ball.state = BALL_STATE_PLAYER
                          THEN ShrinkOnHit(b, ball, player,
                                           b.segments[1].worldX, b.segments[1].worldY)
                          ELSE GrowOnHit(b, ball, player, allocOk))
    ELSE BodyCollision(b, ball, player, FirstSegmentHit(b, ball, 2))

\* snake_boss.c SnakeBossHandleBallCollision: [hit, boss, ball, player]
SnakeBossHandleBallCollision(b, ball, player, allocOk) ==
    IF b.segmentCount <= 0
    THEN [hit |-> FALSE, boss |-> b, ball |-> ball, player |-> player]
    ELSE IF BallHitsHead(b, ball)
    THEN CollisionHandled(IF ball.state = BALL_STATE_PLAYER
                          THEN ShrinkOnHit(b, ball, player,
                                           b.segments[1].worldX, b.segments[1].worldY)
                          ELSE GrowOnHit(b, ball, player, allocOk))
    ELSE BodyCollision(b, ball, player,
                       IF ball.state = BALL_STATE_PLAYER
                       THEN FirstSegmentHit(b, ball, 2) ELSE 0)

\* Fault variant of HurtPlayer: the health is not held at zero.
HurtPlayerNoFloor(p, damage, fromX, fromY, pushForce) ==
    [p EXCEPT !.currentHealth = p.currentHealth - damage,
              !.speedX = p.speedX + (p.x - fromX) * pushForce,
              !.speedY = p.speedY + (p.y - fromY) * pushForce]

\* Damage and knock-back of SnakeBossHandlePlayerCollision.
HurtPlayer(p, damage, fromX, fromY, pushForce) ==
    [p EXCEPT !.currentHealth = Max(0, p.currentHealth - damage),
              !.speedX = p.speedX + (p.x - fromX) * pushForce,
              !.speedY = p.speedY + (p.y - fromY) * pushForce]

\* Index of the first body segment from i on whose rectangle overlaps the
\* player's rectangle, or 0.
RECURSIVE FirstSegmentTouchingPlayer(_, _, _)
FirstSegmentTouchingPlayer(b, p, i) ==
    IF i > b.segmentCount THEN 0
    ELSE IF CheckCollisionRecs(b.segments[i].worldX, b.segments[i].worldY,
                               Px(SNAKE_SEGMENT_WIDTH), Px(SNAKE_SEGMENT_HEIGHT),
                               p.x, p.y, Px(SPRITE_WIDTH), Px(SPRITE_HEIGHT))
    THEN i
    ELSE FirstSegmentTouchingPlayer(b, p, i + 1)

\* snake_boss.c SnakeBossHandlePlayerCollision: the player afterwards.
SnakeBossHandlePlayerCollision(b, p) ==
    IF b.segmentCount <= 0 THEN p
    ELSE LET headX == b.segments[1].worldX
             headY == b.segments[1].worldY
             collisionRadius == Px(SPRITE_WIDTH + SPRITE_HEIGHT) \div 4
         IN  IF Sq(p.x - headX) + Sq(p.y - headY) < Sq(SNAKE_HEAD_RADIUS + collisionRadius)
             THEN HurtPlayer(p, 10, headX, headY, 5)
             ELSE LET i == FirstSegmentTouchingPlayer(b, p, 2)
                  IN  IF i = 0 THEN p
                      ELSE HurtPlayer(p, 5, b.segments[i].worldX, b.segments[i].worldY, 3)

\* Grid cell of the ball: (int)(ball->x / TILE_WIDTH), (int)(ball->y / TILE_HEIGHT).
BallGridX(ball) == TruncDiv(ball.x, Px(TILE_WIDTH))
BallGridY(ball) == TruncDiv(ball.y, Px(TILE_HEIGHT))

\* case SNAKE_STATE_MOVING after the call of SnakeBossMove, whose result is
\* m: a boss that has reached its target or could not move goes back to
\* tracking.
SnakeBossAfterMove(m) ==
    IF (m.boss.segments[1].gridX = m.boss.targetGridX
        /\ m.boss.segments[1].gridY = m.boss.targetGridY)
       \/ ~m.moved
    THEN [m.boss EXCEPT !.hasTarget = FALSE, !.state = SNAKE_STATE_TRACKING]
    ELSE m.boss

\* case SNAKE_STATE_MOVING, the periodic update of the target: every third
\* pass the counter is cleared and, if the ball has left the target cell,
\* the path is searched again.  [boss, moveCount]
SnakeBossRetarget(b, ball, moveCount) ==
    IF moveCount + 1 >= 3
    THEN [boss |-> IF BallGridX(ball) # b.targetGridX \/ BallGridY(ball) # b.targetGridY
                   THEN SnakeBossFindPath([b EXCEPT !.targetGridX = BallGridX(ball),
                                                    !.targetGridY = BallGridY(ball)],
                                          BallGridX(ball), BallGridY(ball))
                   ELSE b,
          moveCount |-> 0]
    ELSE [boss |-> b, moveCount |-> moveCount + 1]

\* Fault variant of SnakeBossMovingStep: the move timer keeps the time
\* beyond the interval instead of starting again from zero.
SnakeBossMovingStepKeepsRest(b, ball, deltaTime, moveCount) ==
    IF b.moveTimer + deltaTime >= b.moveInterval
    THEN SnakeBossRetarget(
           SnakeBossAfterMove(
             SnakeBossMove([b EXCEPT
                              !.moveTimer = b.moveTimer + deltaTime - b.moveInterval,
                              !.currentDir = b.nextDir])),
           ball, moveCount)
    ELSE [boss |-> [b EXCEPT !.moveTimer = b.moveTimer + deltaTime],
          moveCount |-> moveCount]

\* case SNAKE_STATE_MOVING of SnakeBossUpdate.  [boss, moveCount]
SnakeBossMovingStep(b, ball, deltaTime, moveCount) ==
    IF b.moveTimer + deltaTime >= b.moveInterval
    THEN SnakeBossRetarget(
           SnakeBossAfterMove(
             SnakeBossMove([b EXCEPT !.moveTimer = 0, !.currentDir = b.nextDir])),
           ball, moveCount)
    ELSE [boss |-> [b EXCEPT !.moveTimer = b.moveTimer + deltaTime],
          moveCount |-> moveCount]

\* Fault variant of SnakeBossGrowingStep: when the time is up the timer
\* starts again and the boss goes on growing.
SnakeBossGrowingStepRestarts(b, deltaTime) ==
    IF b.growTimer + deltaTime >= SNAKE_GROW_TIME
    THEN [b EXCEPT !.growTimer = 0]
    ELSE [b EXCEPT !.growTimer = b.growTimer + deltaTime]

\* case SNAKE_STATE_GROWING of SnakeBossUpdate.
SnakeBossGrowingStep(b, deltaTime) ==
    IF b.growTimer + deltaTime >= SNAKE_GROW_TIME
    THEN [b EXCEPT !.growTimer = 0, !.state = SNAKE_STATE_TRACKING, !.hasTarget = FALSE]
    ELSE [b EXCEPT !.growTimer = b.growTimer + deltaTime]

\* case SNAKE_STATE_SHRINKING of SnakeBossUpdate.
SnakeBossShrinkingStep(b, deltaTime) ==
    IF b.shrinkTimer + deltaTime >= SNAKE_SHRINK_TIME
    THEN [b EXCEPT !.shrinkTimer = 0, !.state = SNAKE_STATE_TRACKING, !.hasTarget = FALSE]
    ELSE [b EXCEPT !.shrinkTimer = b.shrinkTimer + deltaTime]

\* The state switch of SnakeBossUpdate (snake_boss.c:214-349);
\* moveCount is the function's static counter.  [boss, moveCount]
SnakeBossStateStep(b, ball, deltaTime, moveCount) ==
    CASE b.state = SNAKE_STATE_IDLE \/ b.state = SNAKE_STATE_TRACKING ->
           [boss |-> [SnakeBossFindPath([b EXCEPT !.targetGridX = BallGridX(ball),
                                                  !.targetGridY = BallGridY(ball),
                                                  !.hasTarget = TRUE],
                                        BallGridX(ball), BallGridY(ball))
                        EXCEPT !.state = SNAKE_STATE_MOVING],
            moveCount |-> moveCount]
      [] b.state = SNAKE_STATE_MOVING ->
           SnakeBossMovingStep(b, ball, deltaTime, moveCount)
      [] b.state = SNAKE_STATE_GROWING ->
           [boss |-> SnakeBossGrowingStep(b, deltaTime), moveCount |-> moveCount]
      [] b.state = SNAKE_STATE_SHRINKING ->
           [boss |-> SnakeBossShrinkingStep(b, deltaTime), moveCount |-> moveCount]
      [] b.state = SNAKE_STATE_DEFEATED ->
           [boss |-> b, moveCount |-> moveCount]

\* The entity position copied from the head (snake_boss.c:345-349).
SyncEntityToHead(b) ==
    IF b.segmentCount > 0
    THEN [b EXCEPT !.x = b.segments[1].worldX, !.y = b.segments[1].worldY]
    ELSE b

\* The end of SnakeBossUpdate: the player collision is checked on what the
\* ball collision, whose result is c, has left.
\* [boss, ball, player, moveCount, hit]
SnakeBossCheckPlayer(c, moveCount) ==
    [boss |-> c.boss, ball |-> c.ball,
     player |-> SnakeBossHandlePlayerCollision(c.boss, c.player),
     moveCount |-> moveCount, hit |-> c.hit]

\* SnakeBossUpdate after its state switch, whose result is s: the entity
\* position is taken from the head (h), the ball collision is checked on
\* that boss (c) and the player collision on what it has left.
SnakeBossCheckCollisions(s, ball, player, allocOk) ==
    CHOOSE r \in { SnakeBossCheckPlayer(c, s.moveCount) :
                     c \in { SnakeBossHandleBallCollision(h, ball, player, allocOk) :
                               h \in {SyncEntityToHead(s.boss)} } } : TRUE

\* snake_boss.c SnakeBossUpdate: the state switch (s), then the collision
\* checks.  [boss, ball, player, moveCount, hit]
SnakeBossUpdate(b, ball, player, deltaTime, moveCount, allocOk) ==
    IF b.segmentCount <= 0
    THEN [boss |-> b, ball |-> ball, player |-> player, moveCount |-> moveCount,
          hit |-> FALSE]
    ELSE CHOOSE r \in { SnakeBossCheckCollisions(s, ball, player, allocOk) :
                          s \in {SnakeBossStateStep(b, ball, deltaTime, moveCount)} } : TRUE

(* ------------------------------------------------------------------ *)
(* Ball physics                                                        *)
(* ------------------------------------------------------------------ *)
\* -speed * bounceFactor
Bounce(speed) == TruncDiv((-speed) * BALL_BOUNCE_FACTOR, 100)

\* The horizontal collision of the ball with the wall tile (checkX, checkY).
BallCollideTileX(ball, prevX, checkX, checkY) ==
    LET tileLeft == checkX * Px(TILE_WIDTH)
        tileRight == tileLeft + Px(TILE_WIDTH)
        tileTop == checkY * Px(TILE_HEIGHT)
        tileBottom == tileTop + Px(TILE_HEIGHT)
        r == Px(BALL_RADIUS)
    IN  IF ball.y > tileTop /\ ball.y < tileBottom
        THEN IF prevX + r < tileLeft /\ ball.x + r >= tileLeft
             THEN [ball EXCEPT !.x = tileLeft - r, !.speedX = Bounce(ball.speedX)]
             ELSE IF prevX - r > tileRight /\ ball.x - r <= tileRight
             THEN [ball EXCEPT !.x = tileRight + r, !.speedX = Bounce(ball.speedX)]
             ELSE ball
        ELSE ball

\* The vertical collision of the ball with the wall tile (checkX, checkY).
BallCollideTileY(ball, prevY, checkX, checkY) ==
    LET tileLeft == checkX * Px(TILE_WIDTH)
        tileRight == tileLeft + Px(TILE_WIDTH)
        tileTop == checkY * Px(TILE_HEIGHT)
        tileBottom == tileTop + Px(TILE_HEIGHT)
        r == Px(BALL_RADIUS)
    IN  IF ball.x > tileLeft /\ ball.x < tileRight
        THEN IF prevY + r < tileTop /\ ball.y + r >= tileTop
             THEN [ball EXCEPT !.y = tileTop - r, !.speedY = Bounce(ball.speedY)]
             ELSE IF prevY - r > tileBottom /\ ball.y - r <= tileBottom
             THEN [ball EXCEPT !.y = tileBottom + r, !.speedY = Bounce(ball.speedY)]
             ELSE ball
        ELSE ball

\* The body of the double loop of BallHandleWallCollision for the tile
\* (checkX, checkY), applied to the ball as the loop has left it so far.
BallCollideTile(ball, prevX, prevY, checkX, checkY) ==
    IF ~WorldIsWallAtPosition(checkX * Px(TILE_WIDTH), checkY * Px(TILE_HEIGHT))
    THEN ball
    ELSE BallCollideTileY(BallCollideTileX(ball, prevX, checkX, checkY),
                          prevY, checkX, checkY)

\* The 3x3 loop of BallHandleWallCollision from its k-th iteration on
\* (k = 0..8, i = k \div 3 - 1 outer, j = k % 3 - 1 inner).
RECURSIVE BallTileLoop(_, _, _, _, _, _)
BallTileLoop(ball, prevX, prevY, tileX, tileY, k) ==
    IF k > 8 THEN ball
    ELSE BallTileLoop(BallCollideTile(ball, prevX, prevY,
                                      tileX + (k \div 3) - 1, tileY + (k % 3) - 1),
                      prevX, prevY, tileX, tileY, k + 1)

\* The left and right world boundaries of BallHandleWallCollision.
BallWorldBoundsX(ball) ==
    LET r == Px(BALL_RADIUS)
        worldWidthPixels == Px(WORLD_WIDTH * TILE_WIDTH)
    IN  IF ball.x - r < 0
        THEN [ball EXCEPT !.x = r, !.speedX = Bounce(ball.speedX)]
        ELSE IF ball.x + r > worldWidthPixels
        THEN [ball EXCEPT !.x = worldWidthPixels - r, !.speedX = Bounce(ball.speedX)]
        ELSE ball

\* The top and bottom world boundaries of BallHandleWallCollision.
BallWorldBoundsY(ball) ==
    LET r == Px(BALL_RADIUS)
        worldHeightPixels == Px(WORLD_HEIGHT * TILE_HEIGHT)
    IN  IF ball.y - r < 0
        THEN [ball EXCEPT !.y = r, !.speedY = Bounce(ball.speedY)]
        ELSE IF ball.y + r > worldHeightPixels
        THEN [ball EXCEPT !.y = worldHeightPixels - r, !.speedY = Bounce(ball.speedY)]
        ELSE ball

\* ball.c BallHandleWallCollision
BallHandleWallCollision(ball, prevX, prevY) ==
    BallWorldBoundsY(
      BallWorldBoundsX(
        BallTileLoop(ball, prevX, prevY, BallGridX(ball), BallGridY(ball), 0)))

\* The player's collision radius, (width + height) / 4.
PlayerRadius == Px(SPRITE_WIDTH + SPRITE_HEIGHT) \div 4

\* The collision test of BallHandlePlayerCollision: the centres are closer
\* than the sum of the radii.
BallTouchesPlayer(ball, p) ==
    Sq(ball.x - p.x) + Sq(ball.y - p.y) < Sq(Px(BALL_RADIUS) + PlayerRadius)

\* ball.c BallHandlePlayerCollision.  Coincident centres divide by zero in
\* the C code; the model keeps the ball where it is in that case.
BallHandlePlayerCollision(ball, p) ==
    LET dx == ball.x - p.x
        dy == ball.y - p.y
        distance == Sqrt(Sq(dx) + Sq(dy))
        reach == Px(BALL_RADIUS) + PlayerRadius
    IN  IF Sq(dx) + Sq(dy) < Sq(reach) /\ distance > 0
        THEN CapBallSpeed(
               [ball EXCEPT
                  !.x = p.x + TruncDiv(dx * reach, distance),
                  !.y = p.y + TruncDiv(dy * reach, distance),
                  !.speedX = TruncDiv(dx * Px(PLAYER_PUSH_FORCE), distance)
                             + TruncDiv(p.speedX * 5, 10),
                  !.speedY = TruncDiv(dy * Px(PLAYER_PUSH_FORCE), distance)
                             + TruncDiv(p.speedY * 5, 10)])
        ELSE ball

\* Fault variant of BallStopIfSlow: a ball that comes to rest is released,
\* its ownership inferred from its velocity.
BallStopIfSlowReleases(ball) ==
    [ball EXCEPT !.speedX = IF Abs(ball.speedX) < 1 THEN 0 ELSE ball.speedX,
                 !.speedY = IF Abs(ball.speedY) < 1 THEN 0 ELSE ball.speedY,
                 !.state = IF Abs(ball.speedX) < 1 /\ Abs(ball.speedY) < 1
                           THEN BALL_STATE_NEUTRAL ELSE ball.state]

\* The end of BallUpdate: a speed component below 0.1 is set to 0.
BallStopIfSlow(ball) ==
    [ball EXCEPT !.speedX = IF Abs(ball.speedX) < 1 THEN 0 ELSE ball.speedX,
                 !.speedY = IF Abs(ball.speedY) < 1 THEN 0 ELSE ball.speedY]

\* BallUpdate up to the player collision: the position is integrated,
\* friction is applied and the wall collisions are handled.
BallMoved(ball) ==
    BallHandleWallCollision(
      [ball EXCEPT !.x = ball.x + ball.speedX,
                   !.y = ball.y + ball.speedY,
                   !.speedX = TruncDiv(ball.speedX * BALL_FRICTION, 100),
                   !.speedY = TruncDiv(ball.speedY * BALL_FRICTION, 100)],
      ball.x, ball.y)

\* ball.c BallUpdate
BallUpdate(ball, p) ==
    IF ~ball.active THEN ball
    ELSE BallStopIfSlow(BallHandlePlayerCollision(BallMoved(ball), p))

(* ------------------------------------------------------------------ *)
(* Player update                                                       *)
(* ------------------------------------------------------------------ *)
\* One axis of the speed update of PlayerHandleMovement: acceleration by
\* the input, deceleration without input, clamp to the speed limit.
PlayerAxisSpeed(speed, dir, deltaTime, moveSpeed) ==
    LET acc == speed + TruncDiv(dir * PLAYER_ACCEL * deltaTime * moveSpeed, 200)
        decel == TruncDiv(PLAYER_DECEL * deltaTime, 20)
        dec == IF dir # 0 THEN acc
               ELSE IF acc > 0 THEN Max(0, acc - decel)
               ELSE IF acc < 0 THEN Min(0, acc + decel)
               ELSE acc
        maxSpeed == TruncDiv(PLAYER_MAX_SPEED * moveSpeed, 10)
    IN  Max(-maxSpeed, Min(maxSpeed, dec))

\* player.c PlayerHandleMovement; (dirX, dirY) is the movement vector the
\* input manager reports.
PlayerHandleMovement(p, dirX, dirY, deltaTime) ==
    LET sx == PlayerAxisSpeed(p.speedX, dirX, deltaTime, p.moveSpeed)
        sy == PlayerAxisSpeed(p.speedY, dirY, deltaTime, p.moveSpeed)
        blockedX == WorldIsWallAtPosition(p.x + sx, p.y)
        x1 == IF blockedX THEN p.x ELSE p.x + sx
        sx1 == IF blockedX THEN 0 ELSE sx
        blockedY == WorldIsWallAtPosition(x1, p.y + sy)
        y1 == IF blockedY THEN p.y ELSE p.y + sy
        sy1 == IF blockedY THEN 0 ELSE sy
        buffer == Px(5)
        worldWidthPixels == Px(WORLD_WIDTH * TILE_WIDTH)
        worldHeightPixels == Px(WORLD_HEIGHT * TILE_HEIGHT)
        outX == x1 < buffer \/ x1 > worldWidthPixels - buffer
        outY == y1 < buffer \/ y1 > worldHeightPixels - buffer
    IN  [p EXCEPT !.x = Max(buffer, Min(worldWidthPixels - buffer, x1)),
                  !.y = Max(buffer, Min(worldHeightPixels - buffer, y1)),
                  !.speedX = IF outX THEN 0 ELSE sx1,
                  !.speedY = IF outY THEN 0 ELSE sy1]

\* player.c PlayerHandleDeath: [done, player]; skip is a key press on the
\* death screen.
PlayerHandleDeath(p, deltaTime, skip) ==
    LET t == p.deathTimer + deltaTime
        q == [p EXCEPT !.deathTimer = t]
    IN  IF p.state = PLAYER_STATE_DYING
        THEN [done |-> FALSE,
              player |-> IF t >= PLAYER_DEATH_DURATION
                         THEN [q EXCEPT !.state = PLAYER_STATE_DEAD] ELSE q]
        ELSE IF p.state = PLAYER_STATE_DEAD
        THEN [done |-> t >= PLAYER_DEATH_DURATION + DEATH_SCREEN_DURATION \/ skip,
              player |-> q]
        ELSE [done |-> FALSE, player |-> q]

\* player.c PlayerUpdate
PlayerUpdate(p, dirX, dirY, deltaTime) ==
    IF p.state = PLAYER_STATE_ALIVE
    THEN LET q == PlayerHandleMovement(p, dirX, dirY, deltaTime)
         IN  IF q.currentHealth <= 0
             THEN [q EXCEPT !.state = PLAYER_STATE_DYING, !.deathTimer = 0]
             ELSE q
    ELSE PlayerHandleDeath(p, deltaTime, FALSE).player

(* ------------------------------------------------------------------ *)
(* Win hole                                                            *)
(* ------------------------------------------------------------------ *)
\* WinConditionState (win_condition.h)
WIN_STATE_IDLE == "IDLE"
WIN_STATE_PLAYER_SCORED == "PLAYER_SCORED"
WIN_STATE_ENEMY_SCORED == "ENEMY_SCORED"
WIN_STATE_NEUTRAL_HOLD == "NEUTRAL_HOLD"

\* win_condition.c WinConditionCreate
WinConditionCreate(x, y, radius) ==
    [x |-> x, y |-> y, radius |-> radius, state |-> WIN_STATE_IDLE, stateTimer |-> 0]

\* game.c InitializeWinCondition
InitializeWinCondition ==
    WinConditionCreate((WIN_HOLE_DEFAULT_X * Px(WORLD_WIDTH * TILE_WIDTH)) \div 20,
                       (WIN_HOLE_DEFAULT_Y * Px(WORLD_HEIGHT * TILE_HEIGHT)) \div 20,
                       Px(WIN_HOLE_RADIUS))

\* win_condition.c WinConditionCheckBallInHole
WinConditionCheckBallInHole(w, ball) ==
    LET limit == w.radius - (Px(BALL_RADIUS) * 8) \div 10
    IN  limit > 0 /\ Sq(ball.x - w.x) + Sq(ball.y - w.y) < Sq(limit)

\* The loop of WinConditionHandlePlayerScore that shrinks a snake boss,
\* with j shrinks still to apply.
RECURSIVE ShrinkLoop(_, _)
ShrinkLoop(b, j) ==
    IF j = 0 THEN b
    ELSE LET r == SnakeBossShrink(b)
         IN  IF r.ok THEN ShrinkLoop(r.boss, j - 1)
             ELSE [b EXCEPT !.state = SNAKE_STATE_DEFEATED]

\* Fault variant of WinConditionHandlePlayerScore: one shrink is applied
\* in the place of WIN_PLAYER_SEGMENTS_SNAKEBOSS.
WinConditionHandlePlayerScoreOneShrink(b) ==
    IF b.state # SNAKE_STATE_DEFEATED
    THEN IF SnakeBossShrink(b).ok
         THEN [SnakeBossShrink(b).boss EXCEPT !.state = SNAKE_STATE_SHRINKING,
                                              !.shrinkTimer = 0]
         ELSE [b EXCEPT !.state = SNAKE_STATE_DEFEATED]
    ELSE b

\* win_condition.c WinConditionHandlePlayerScore: the snake boss afterwards.
WinConditionHandlePlayerScore(b) ==
    IF b.state # SNAKE_STATE_DEFEATED
    THEN LET s == ShrinkLoop(b, WIN_PLAYER_SEGMENTS_SNAKEBOSS)
         IN  IF s.state # SNAKE_STATE_DEFEATED
             THEN [s EXCEPT !.state = SNAKE_STATE_SHRINKING, !.shrinkTimer = 0]
             ELSE s
    ELSE b

\* Fault variant of WinConditionHandleEnemyScore: the health is not floored.
WinConditionHandleEnemyScoreNoFloor(p) ==
    [p EXCEPT !.currentHealth = p.currentHealth - WIN_ENEMY_DAMAGE_TO_PLAYER]

\* win_condition.c WinConditionHandleEnemyScore: the player afterwards.
WinConditionHandleEnemyScore(p) ==
    [p EXCEPT !.currentHealth = Max(0, p.currentHealth - WIN_ENEMY_DAMAGE_TO_PLAYER)]

\* Fault variant of WinConditionHandleNeutralBall: the held ball keeps its
\* ownership.
WinConditionHandleNeutralBallKeepsOwner(w, ball, deltaTime) ==
    [eject |-> w.stateTimer + deltaTime >= WIN_NEUTRAL_BALL_HOLD_TIME,
     win |-> [w EXCEPT !.stateTimer = w.stateTimer + deltaTime],
     ball |-> [ball EXCEPT !.x = w.x, !.y = w.y, !.speedX = 0, !.speedY = 0]]

\* Fault variant of WinConditionHandleNeutralBall: the ball is held until
\* the hold time is exceeded, one tick longer when it is met exactly.
WinConditionHandleNeutralBallLate(w, ball, deltaTime) ==
    [eject |-> w.stateTimer + deltaTime > WIN_NEUTRAL_BALL_HOLD_TIME,
     win |-> [w EXCEPT !.stateTimer = w.stateTimer + deltaTime],
     ball |-> [ball EXCEPT !.x = w.x, !.y = w.y, !.speedX = 0, !.speedY = 0,
                           !.state = BALL_STATE_NEUTRAL]]

\* win_condition.c WinConditionHandleNeutralBall: [eject, win, ball]
WinConditionHandleNeutralBall(w, ball, deltaTime) ==
    [eject |-> w.stateTimer + deltaTime >= WIN_NEUTRAL_BALL_HOLD_TIME,
     win |-> [w EXCEPT !.stateTimer = w.stateTimer + deltaTime],
     ball |-> [ball EXCEPT !.x = w.x, !.y = w.y, !.speedX = 0, !.speedY = 0,
                           !.state = BALL_STATE_NEUTRAL]]

\* Angles GetRandomValue(0, 359) is sampled at, in degrees.
EjectAngles == {0, 45, 90, 135, 180, 225, 270, 315}
\* cosf and sinf of a sampled angle, in thousandths.
Cos1000(a) ==
    CASE a = 0 -> 1000 [] a = 45 -> 707 [] a = 90 -> 0 [] a = 135 -> -707
      [] a = 180 -> -1000 [] a = 225 -> -707 [] a = 270 -> 0 [] a = 315 -> 707
Sin1000(a) ==
    CASE a = 0 -> 0 [] a = 45 -> 707 [] a = 90 -> 1000 [] a = 135 -> 707
      [] a = 180 -> 0 [] a = 225 -> -707 [] a = 270 -> -1000 [] a = 315 -> -707

\* Fault variant of WinConditionEjectBall: the ball is pushed but not moved
\* out of the hole.
WinConditionEjectBallInPlace(w, ball, angle) ==
    BallApplyForce([ball EXCEPT !.state = BALL_STATE_NEUTRAL],
                   TruncDiv(Cos1000(angle) * ((Px(BALL_INITIAL_SPEED) * 15) \div 10), 1000),
                   TruncDiv(Sin1000(angle) * ((Px(BALL_INITIAL_SPEED) * 15) \div 10), 1000))

\* win_condition.c WinConditionEjectBall: the ball afterwards.
WinConditionEjectBall(w, ball, angle) ==
    LET speed == (Px(BALL_INITIAL_SPEED) * 15) \div 10
        pushed == BallApplyForce([ball EXCEPT !.state = BALL_STATE_NEUTRAL],
                                 TruncDiv(Cos1000(angle) * speed, 1000),
                                 TruncDiv(Sin1000(angle) * speed, 1000))
    IN  [pushed EXCEPT
           !.x = w.x + TruncDiv(Cos1000(angle) * (w.radius + Px(BALL_RADIUS)), 1000),
           !.y = w.y + TruncDiv(Sin1000(angle) * (w.radius + Px(BALL_RADIUS)), 1000)]

\* Fault variant of WinConditionLeaveScored: the scored state is kept.
WinConditionStayScored(w) == w

\* The case WIN_STATE_PLAYER_SCORED / WIN_STATE_ENEMY_SCORED of
\* WinConditionUpdate: the win hole afterwards.
WinConditionLeaveScored(w) ==
    [w EXCEPT !.state = WIN_STATE_NEUTRAL_HOLD, !.stateTimer = 0]

\* Fault variant of WinConditionCatchBall: the ball is centred on the hole
\* but keeps its velocity.
WinConditionCatchBallMoving(w, ball) ==
    [ball EXCEPT !.x = w.x, !.y = w.y]

\* The end of case WIN_STATE_IDLE of WinConditionUpdate for a ball in the
\* hole: the ball is stopped and centred on the hole.
WinConditionCatchBall(w, ball) ==
    [ball EXCEPT !.speedX = 0, !.speedY = 0, !.x = w.x, !.y = w.y]

\* Fault variant of WinConditionUpdate: the enemy's score is applied again
\* in the update that leaves the scored state.
WinConditionUpdateScoresAgain(w, ball, p, b, deltaTime, angle) ==
    CASE w.state = WIN_STATE_IDLE ->
           IF WinConditionCheckBallInHole(w, ball)
           THEN LET held == WinConditionCatchBall(w, ball)
                IN  IF ball.state = BALL_STATE_PLAYER
                    THEN [win |-> [w EXCEPT !.state = WIN_STATE_PLAYER_SCORED],
                          ball |-> held, player |-> p,
                          boss |-> WinConditionHandlePlayerScore(b)]
                    ELSE IF ball.state = BALL_STATE_SNAKE
                    THEN [win |-> [w EXCEPT !.state = WIN_STATE_ENEMY_SCORED],
                          ball |-> held,
                          player |-> WinConditionHandleEnemyScore(p), boss |-> b]
                    ELSE [win |-> [w EXCEPT !.state = WIN_STATE_NEUTRAL_HOLD,
                                            !.stateTimer = 0],
                          ball |-> held, player |-> p, boss |-> b]
           ELSE [win |-> w, ball |-> ball, player |-> p, boss |-> b]
      [] w.state = WIN_STATE_PLAYER_SCORED ->
           [win |-> WinConditionLeaveScored(w), ball |-> ball, player |-> p, boss |-> b]
      [] w.state = WIN_STATE_ENEMY_SCORED ->
           [win |-> WinConditionLeaveScored(w), ball |-> ball,
            player |-> WinConditionHandleEnemyScore(p), boss |-> b]
      [] w.state = WIN_STATE_NEUTRAL_HOLD ->
           LET h == WinConditionHandleNeutralBall(w, ball, deltaTime)
           IN  IF h.eject
               THEN [win |-> [h.win EXCEPT !.state = WIN_STATE_IDLE],
                     ball |-> WinConditionEjectBall(h.win, h.ball, angle),
                     player |-> p, boss |-> b]
               ELSE [win |-> h.win, ball |-> h.ball, player |-> p, boss |-> b]

\* win_condition.c WinConditionUpdate: [win, ball, player, boss]
WinConditionUpdate(w, ball, p, b, deltaTime, angle) ==
    CASE w.state = WIN_STATE_IDLE ->
           IF WinConditionCheckBallInHole(w, ball)
           THEN LET held == WinConditionCatchBall(w, ball)
                IN  IF ball.state = BALL_STATE_PLAYER
                    THEN [win |-> [w EXCEPT !.state = WIN_STATE_PLAYER_SCORED],
                          ball |-> held, player |-> p,
                          boss |-> WinConditionHandlePlayerScore(b)]
                    ELSE IF ball.state = BALL_STATE_SNAKE
                    THEN [win |-> [w EXCEPT !.state = WIN_STATE_ENEMY_SCORED],
                          ball |-> held,
                          player |-> WinConditionHandleEnemyScore(p), boss |-> b]
                    ELSE [win |-> [w EXCEPT !.state = WIN_STATE_NEUTRAL_HOLD,
                                            !.stateTimer = 0],
                          ball |-> held, player |-> p, boss |-> b]
           ELSE [win |-> w, ball |-> ball, player |-> p, boss |-> b]
      [] w.state = WIN_STATE_PLAYER_SCORED \/ w.state = WIN_STATE_ENEMY_SCORED ->
           [win |-> WinConditionLeaveScored(w), ball |-> ball, player |-> p, boss |-> b]
      [] w.state = WIN_STATE_NEUTRAL_HOLD ->
           LET h == WinConditionHandleNeutralBall(w, ball, deltaTime)
           IN  IF h.eject
               THEN [win |-> [h.win EXCEPT !.state = WIN_STATE_IDLE],
                     ball |-> WinConditionEjectBall(h.win, h.ball, angle),
                     player |-> p, boss |-> b]
               ELSE [win |-> h.win, ball |-> h.ball, player |-> p, boss |-> b]

(* ------------------------------------------------------------------ *)
(* Match / goal variant                                                *)
(* ------------------------------------------------------------------ *)
\* MatchState and GoalScorer (match.h)
MATCH_STATE_PLAYING == "PLAYING"
MATCH_STATE_GOAL == "GOAL"
MATCH_STATE_FINISHED == "FINISHED"
GOAL_SCORER_NONE == "NONE"
GOAL_SCORER_PLAYER == "PLAYER"
GOAL_SCORER_ENEMY == "ENEMY"

\* match.c uses these macros, but no header of the sources defines them.
\* The values are the model's: a three minute match, a two second (40
\* tick) celebration, a goal of 8 x 6 tiles, 30 and 20 points of damage.
MATCH_DURATION_MINUTES == 3
GOAL_CELEBRATION_DURATION == 40
GOAL_WIDTH_TILES == 8
GOAL_HEIGHT_TILES == 6
GOAL_PLAYER_SCORE_DAMAGE == 30
GOAL_ENEMY_SCORE_DAMAGE == 20

\* match.c MatchCreate; timeLeft is the clock the match is taken up at
\* (MatchCreate itself starts it at MATCH_DURATION_MINUTES * 60 s).
MatchCreate(timeLeft) ==
    [state |-> MATCH_STATE_PLAYING, lastScorer |-> GOAL_SCORER_NONE,
     playerScore |-> 0, enemyScore |-> 0,
     currentTime |-> timeLeft, goalCelebrationTime |-> 0]

\* match.c MatchInitializeGoal: goal position in tiles.
GoalTileX == (WORLD_WIDTH - GOAL_WIDTH_TILES) \div 2
GoalTileY == GOAL_HEIGHT_TILES + 15

\* Fault variant of GoalScorerOf: every ball that is not the player's scores
\* for the enemy.
GoalScorerOfTwoWay(st) ==
    IF st = BALL_STATE_PLAYER THEN "PLAYER" ELSE "ENEMY"

\* The scorer MatchCheckGoal reads off the ownership of a ball in the goal.
GoalScorerOf(st) ==
    IF st = BALL_STATE_PLAYER THEN GOAL_SCORER_PLAYER
    ELSE IF st = BALL_STATE_SNAKE THEN GOAL_SCORER_ENEMY
    ELSE GOAL_SCORER_NONE

\* The goal test of MatchCheckGoal: the ball touches the net entrance and
\* its centre is closer to the goal centre than minDistance.
BallInGoal(ball) ==
    LET entranceW == Px((GOAL_WIDTH_TILES - 2) * TILE_WIDTH)
        entranceH == Px((GOAL_HEIGHT_TILES - 2) * TILE_HEIGHT)
        entranceCX == Px((GoalTileX + 1) * TILE_WIDTH) + entranceW \div 2
        entranceCY == Px((GoalTileY + 1) * TILE_HEIGHT) + entranceH \div 2
        goalCenterX == Px(GoalTileX * TILE_WIDTH) + HalfPx(GOAL_WIDTH_TILES * TILE_WIDTH)
        goalCenterY == Px(GoalTileY * TILE_HEIGHT) + HalfPx(GOAL_HEIGHT_TILES * TILE_HEIGHT)
        minDistance == Px(GOAL_WIDTH_TILES * TILE_WIDTH + GOAL_HEIGHT_TILES * TILE_HEIGHT) \div 5
    IN  /\ CheckCollisionCircleRec(ball.x, ball.y, Px(BALL_RADIUS),
                                   entranceCX, entranceCY, entranceW, entranceH)
        /\ Sq(ball.x - goalCenterX) + Sq(ball.y - goalCenterY) < Sq(minDistance)

\* match.c MatchCheckGoal: [scorer, ball]
MatchCheckGoal(m, ball) ==
    IF m.state # MATCH_STATE_PLAYING \/ ~BallInGoal(ball)
    THEN [scorer |-> GOAL_SCORER_NONE, ball |-> ball]
    ELSE IF GoalScorerOf(ball.state) # GOAL_SCORER_NONE
    THEN [scorer |-> GoalScorerOf(ball.state), ball |-> ball]
    ELSE [scorer |-> GOAL_SCORER_NONE,
          ball |-> BallReset(ball, HalfPx(WORLD_WIDTH * TILE_WIDTH),
                                   HalfPx(WORLD_HEIGHT * TILE_HEIGHT) - Px(50))]

\* The shrink loop of ApplyDamageToEnemies with j shrinks still to apply.
RECURSIVE DamageLoop(_, _)
DamageLoop(b, j) ==
    IF j > 0 /\ b.segmentCount > 1
    THEN DamageLoop(SnakeBossShrink(b).boss, j - 1)
    ELSE b

\* match.c ApplyDamageToEnemies: the snake boss afterwards.
ApplyDamageToEnemies(damage, b) == DamageLoop(b, damage \div 10)

\* match.c MatchHandleGoal with UpdateScoreAndApplyEffects: [match, player, boss]
MatchHandleGoal(m, scorer, p, b) ==
    LET g == [m EXCEPT !.state = MATCH_STATE_GOAL, !.lastScorer = scorer,
                       !.goalCelebrationTime = 0]
    IN  IF scorer = GOAL_SCORER_PLAYER
        THEN [match |-> [g EXCEPT !.playerScore = m.playerScore + 1],
              player |-> p,
              boss |-> ApplyDamageToEnemies(GOAL_PLAYER_SCORE_DAMAGE, b)]
        ELSE IF scorer = GOAL_SCORER_ENEMY
        THEN [match |-> [g EXCEPT !.enemyScore = m.enemyScore + 1],
              player |-> [p EXCEPT !.currentHealth =
                                      Max(0, p.currentHealth - GOAL_ENEMY_SCORE_DAMAGE)],
              boss |-> b]
        ELSE [match |-> g, player |-> p, boss |-> b]

\* Fault variant of ResetSnakeBossPosition: only the head is put on the
\* starting cell, the body stays where it was.
ResetSnakeBossPositionHeadOnly(b, centerX, centerY) ==
    IF b.segmentCount <= 0 THEN b
    ELSE LET gridX == TruncDiv(centerX + Px(50), Px(TILE_WIDTH))
             gridY == TruncDiv(centerY, Px(TILE_HEIGHT))
         IN  SnakeBossUpdateSegments(
               [b EXCEPT !.segments[1].gridX = gridX, !.segments[1].gridY = gridY])

\* match.c ResetSnakeBossPosition
ResetSnakeBossPosition(b, centerX, centerY) ==
    IF b.segmentCount <= 0 THEN b
    ELSE LET gridX == TruncDiv(centerX + Px(50), Px(TILE_WIDTH))
             gridY == TruncDiv(centerY, Px(TILE_HEIGHT))
         IN  SnakeBossUpdateSegments(
               [b EXCEPT !.segments =
                  [j \in 1..b.segmentCount |->
                      [b.segments[j] EXCEPT !.gridX = gridX + (j - 1), !.gridY = gridY]]])

\* match.c MatchResetPositions: [ball, player, boss]
MatchResetPositions(ball, p, b) ==
    LET centerX == HalfPx(WORLD_WIDTH * TILE_WIDTH)
        centerY == HalfPx(WORLD_HEIGHT * TILE_HEIGHT)
    IN  [ball |-> BallReset(ball, centerX, centerY - Px(50)),
         player |-> PlayerReset(p, centerX - Px(100), centerY),
         boss |-> ResetSnakeBossPosition(b, centerX, centerY + Px(100))]

\* What a goal leaves: the result h of MatchHandleGoal with the ball.
\* [match, ball, player, boss]
GoalOutcome(h, ball) ==
    [match |-> h.match, ball |-> ball, player |-> h.player, boss |-> h.boss]

\* The test keys of MatchUpdate: the ball is given to the side st and a
\* goal of scorer is forced; s is [match, ball, player, boss].
MatchForceGoal(s, scorer, st) ==
    GoalOutcome(MatchHandleGoal(s.match, scorer, s.player, s.boss),
                [s.ball EXCEPT !.state = st])

\* match.c UpdatePlayingState
UpdatePlayingState(s, deltaTime) ==
    IF s.match.currentTime - deltaTime <= 0
    THEN [s EXCEPT !.match = [s.match EXCEPT !.currentTime = 0,
                                             !.state = MATCH_STATE_FINISHED]]
    ELSE LET t == [s.match EXCEPT !.currentTime = s.match.currentTime - deltaTime]
             c == MatchCheckGoal(t, s.ball)
         IN  IF c.scorer # GOAL_SCORER_NONE
             THEN GoalOutcome(MatchHandleGoal(t, c.scorer, s.player, s.boss), c.ball)
             ELSE [s EXCEPT !.match = t, !.ball = c.ball]

\* match.c UpdateGoalState
UpdateGoalState(s, deltaTime) ==
    IF s.match.goalCelebrationTime + deltaTime >= GOAL_CELEBRATION_DURATION
    THEN LET r == MatchResetPositions(s.ball, s.player, s.boss)
         IN  [match |-> [s.match EXCEPT !.goalCelebrationTime = 0,
                                        !.state = MATCH_STATE_PLAYING],
              ball |-> r.ball, player |-> r.player, boss |-> r.boss]
    ELSE [s EXCEPT !.match =
             [s.match EXCEPT !.goalCelebrationTime =
                                s.match.goalCelebrationTime + deltaTime]]

\* The switch on match->state that ends MatchUpdate.
MatchStateSwitch(s, deltaTime) ==
    CASE s.match.state = MATCH_STATE_PLAYING -> UpdatePlayingState(s, deltaTime)
      [] s.match.state = MATCH_STATE_GOAL -> UpdateGoalState(s, deltaTime)
      [] s.match.state = MATCH_STATE_FINISHED -> s

\* The test key H of MatchUpdate, then its switch.
MatchAfterKeyG(s, deltaTime, keyH) ==
    MatchStateSwitch(IF keyH
                     THEN MatchForceGoal(s, GOAL_SCORER_ENEMY, BALL_STATE_SNAKE)
                     ELSE s,
                     deltaTime)

\* match.c MatchUpdate; keyG and keyH are IsKeyPressed(KEY_G) and
\* IsKeyPressed(KEY_H).  [match, ball, player, boss]
MatchUpdate(m, ball, p, b, deltaTime, keyG, keyH) ==
    MatchAfterKeyG(IF keyG
                   THEN MatchForceGoal([match |-> m, ball |-> ball, player |-> p, boss |-> b],
                                       GOAL_SCORER_PLAYER, BALL_STATE_PLAYER)
                   ELSE [match |-> m, ball |-> ball, player |-> p, boss |-> b],
                   deltaTime, keyH)

(* ------------------------------------------------------------------ *)
(* Game                                                                *)
(* ------------------------------------------------------------------ *)
\* game.c GameSetSnakeBoss, with the ball already created.
GameSetSnakeBoss(gridX, gridY, initialLength, ball) ==
    LET b == SnakeBossCreate(gridX, gridY, initialLength)
        dx == BallGridX(ball) - gridX
        dy == BallGridY(ball) - gridY
        dir == IF Abs(dx) > Abs(dy)
               THEN (IF dx > 0 THEN DIRECTION_RIGHT ELSE DIRECTION_LEFT)
               ELSE (IF dy > 0 THEN DIRECTION_DOWN ELSE DIRECTION_UP)
    IN  [b EXCEPT !.targetGridX = BallGridX(ball), !.targetGridY = BallGridY(ball),
                  !.hasTarget = TRUE, !.state = SNAKE_STATE_MOVING,
                  !.moveInterval = 10, !.currentDir = dir, !.nextDir = dir]

\* game.c GameReset: [player, ball, win]
GameReset(p, ball) ==
    LET q == PlayerReset(p, HalfPx(WORLD_WIDTH * TILE_WIDTH),
                            HalfPx(WORLD_HEIGHT * TILE_HEIGHT))
    IN  [player |-> q,
         ball |-> BallReset(ball, q.x + Px(20), q.y + Px(20)),
         win |-> InitializeWinCondition]

(* ------------------------------------------------------------------ *)
(* The game as a state machine                                         *)
(* ------------------------------------------------------------------ *)
VARIABLES
    boss,       \* the snake boss (SnakeBossData and the entity position)
    ball,       \* the ball (entity fields and BallData.state)
    player,     \* the player (entity fields and PlayerData)
    win,        \* the win hole (WinCondition)
    match,      \* the match (Match), used in the goal variant
    mode,       \* "hole": GameUpdate ends with WinConditionUpdate;
                \* "match": it ends with MatchUpdate
    moveCount,  \* static int moveCount of SnakeBossUpdate
    dt,         \* game->deltaTime of the frame in progress
    moveDir,    \* the movement vector the input manager reports, held for
                \* the frames a run is followed for
    pc,         \* the call of GameUpdate that comes next
    frame,      \* frames of GameUpdate started so far
    last        \* history: the call that ran last, the state it started
                \* from and the boss between its state switch and its
                \* collision checks

vars == <<boss, ball, player, win, match, mode, moveCount, dt, moveDir, pc, frame, last>>

BallStates == {BALL_STATE_NEUTRAL, BALL_STATE_PLAYER, BALL_STATE_SNAKE, BALL_STATE_OTHER}
FrameTimes == {DtSmall, DtLarge}
\* Movement vectors the input manager reports.
MoveDirs == {<<0, 0>>, <<1, 0>>}

\* Arguments the constructors are called with: the variant, the grid cell
\* of the boss, the position of the ball and the health the player is
\* left with.  GameInitialize's are the first of each variant; the others
\* take up a game with the boss below the hole and the ball between them,
\* with the boss above the ball, with the ball in the hole, with the
\* ball in the goal, with the ball within the player's reach, with the
\* ball on the body of the boss behind its head, with the boss and the
\* ball in the upper right corner of the arena, and with the boss within
\* reach of a player who has little health left.
StartPositions ==
    { [mode |-> "hole",
       bossX |-> WORLD_WIDTH \div 2 + 5, bossY |-> WORLD_HEIGHT \div 2,
       ballX |-> HalfPx(WORLD_WIDTH * TILE_WIDTH) + Px(20),
       ballY |-> HalfPx(WORLD_HEIGHT * TILE_HEIGHT) + Px(20), health |-> 100],
      [mode |-> "hole", bossX |-> 12, bossY |-> 11,
       ballX |-> 3125, ballY |-> 2650, health |-> 100],
      [mode |-> "hole", bossX |-> 14, bossY |-> 12,
       ballX |-> 3125, ballY |-> 2550, health |-> 100],
      [mode |-> "hole", bossX |-> 14, bossY |-> 12,
       ballX |-> 3125, ballY |-> 2550, health |-> 25],
      [mode |-> "match",
       bossX |-> WORLD_WIDTH \div 2 + 5, bossY |-> WORLD_HEIGHT \div 2,
       ballX |-> HalfPx(WORLD_WIDTH * TILE_WIDTH) + Px(20),
       ballY |-> HalfPx(WORLD_HEIGHT * TILE_HEIGHT) + Px(20), health |-> 100],
      [mode |-> "match", bossX |-> 17, bossY |-> 26,
       ballX |-> 3000, ballY |-> 6000, health |-> 100],
      [mode |-> "hole",
       bossX |-> WORLD_WIDTH \div 2 + 5, bossY |-> WORLD_HEIGHT \div 2,
       ballX |-> HalfPx(WORLD_WIDTH * TILE_WIDTH) + Px(10),
       ballY |-> HalfPx(WORLD_HEIGHT * TILE_HEIGHT) + Px(10), health |-> 100],
      [mode |-> "hole", bossX |-> 12, bossY |-> 11,
       ballX |-> 2700, ballY |-> 2875, health |-> 100],
      [mode |-> "hole", bossX |-> WORLD_WIDTH - 2, bossY |-> 1,
       ballX |-> Px((WORLD_WIDTH - 2) * TILE_WIDTH) + HalfPx(TILE_WIDTH),
       ballY |-> Px(TILE_HEIGHT) + HalfPx(TILE_HEIGHT), health |-> 100],
      [mode |-> "hole", bossX |-> WORLD_WIDTH \div 2 + 1, bossY |-> WORLD_HEIGHT \div 2 - 2,
       ballX |-> Px(TILE_WIDTH) + HalfPx(TILE_WIDTH),
       ballY |-> Px(TILE_HEIGHT) + HalfPx(TILE_HEIGHT), health |-> 8] }

Snapshot ==
    [boss |-> boss, ball |-> ball, player |-> player, win |-> win, match |-> match]

\* The history record of a call: its name, the state it started from, the
\* boss as its collision checks found it, and the inputs it drew.
History(op, mid, allocOk, keyG, keyH) ==
    [op |-> op, pre |-> Snapshot, mid |-> mid,
     allocOk |-> allocOk, keyG |-> keyG, keyH |-> keyH]

Init ==
    \E s \in StartPositions, st \in BallStates, len \in 1..MaxInitialLength,
       dir \in MoveDirs :
       /\ ball = BallCreate(s.ballX, s.ballY, st)
       /\ player = [PlayerCreate(HalfPx(WORLD_WIDTH * TILE_WIDTH),
                                 HalfPx(WORLD_HEIGHT * TILE_HEIGHT))
                      EXCEPT !.currentHealth = s.health]
       /\ boss = GameSetSnakeBoss(s.bossX, s.bossY, len, ball)
       /\ win = InitializeWinCondition
       /\ match = MatchCreate(MATCH_DURATION_MINUTES * 60 * 20)
       /\ mode = s.mode
       /\ moveCount = 0
       /\ dt = 0
       /\ moveDir = dir
       /\ pc = "player"
       /\ frame = 0
       /\ last = [op |-> "GameInitialize",
                  pre |-> [boss |-> boss, ball |-> ball, player |-> player,
                           win |-> win, match |-> match],
                  mid |-> boss, allocOk |-> TRUE, keyG |-> FALSE, keyH |-> FALSE]

\* GameUpdate up to and including the player: the frame time is read; a
\* player who is not alive runs the death sequence and the frame ends
\* (with GameReset when the sequence is complete); a player who is alive is
\* updated.
GameUpdatePlayer ==
    /\ pc = "player"
    /\ frame < MaxFrames
    /\ \E d \in FrameTimes,
          skip \in (IF player.state = PLAYER_STATE_DEAD THEN BOOLEAN ELSE {FALSE}) :
         /\ dt' = d
         /\ IF player.state # PLAYER_STATE_ALIVE
            THEN LET h == PlayerHandleDeath(player, d, skip)
                     r == GameReset(h.player, ball)
                 IN  /\ player' = IF h.done THEN r.player ELSE h.player
                     /\ ball' = IF h.done THEN r.ball ELSE ball
                     /\ win' = IF h.done THEN r.win ELSE win
                     /\ pc' = "player"
            ELSE /\ player' = PlayerUpdate(player, moveDir[1], moveDir[2], d)
                 /\ UNCHANGED <<ball, win>>
                 /\ pc' = "ball"
    /\ frame' = frame + 1
    /\ last' = History("PlayerUpdate", boss, TRUE, FALSE, FALSE)
    /\ UNCHANGED <<boss, match, mode, moveCount, moveDir>>

\* GameUpdate: BallUpdate.
GameUpdateBall ==
    /\ pc = "ball"
    /\ ball' = BallUpdate(ball, player)
    /\ pc' = "boss"
    /\ last' = History("BallUpdate", boss, TRUE, FALSE, FALSE)
    /\ UNCHANGED <<boss, player, win, match, mode, moveCount, dt, moveDir, frame>>

\* The boss as the collision checks of SnakeBossUpdate find it.
BossAtCollision == SyncEntityToHead(SnakeBossStateStep(boss, ball, dt, moveCount).boss)

\* SnakeBossUpdate is about to call SnakeBossGrow with a full segment array,
\* so that malloc is called; b is the boss as the collision checks find it.
GrowAllocates(b) ==
    /\ boss.segmentCount > 0
    /\ BallHitsHead(b, ball)
    /\ ball.state # BALL_STATE_PLAYER
    /\ b.state # SNAKE_STATE_GROWING
    /\ b.segmentCount >= b.segmentCapacity

\* GameUpdate: SnakeBossUpdate of the snake boss.
GameUpdateSnakeBoss ==
    /\ pc = "boss"
    /\ \E mid \in {BossAtCollision} :
         \E allocOk \in (IF GrowAllocates(mid) THEN BOOLEAN ELSE {TRUE}) :
           \E r \in {SnakeBossUpdate(boss, ball, player, dt, moveCount, allocOk)} :
              /\ boss' = r.boss
              /\ ball' = r.ball
              /\ player' = r.player
              /\ moveCount' = r.moveCount
              /\ last' = History("SnakeBossUpdate", mid, allocOk, FALSE, FALSE)
    /\ pc' = "win"
    /\ UNCHANGED <<win, match, mode, dt, moveDir, frame>>

\* WinConditionUpdate is about to eject the ball.
HoldElapsed ==
    /\ win.state = WIN_STATE_NEUTRAL_HOLD
    /\ win.stateTimer + dt >= WIN_NEUTRAL_BALL_HOLD_TIME

\* GameUpdate: WinConditionUpdate.
GameUpdateWinCondition ==
    /\ pc = "win"
    /\ mode = "hole"
    /\ \E angle \in (IF HoldElapsed THEN EjectAngles ELSE {0}) :
         \E r \in {WinConditionUpdate(win, ball, player, boss, dt, angle)} :
            /\ win' = r.win
            /\ ball' = r.ball
            /\ player' = r.player
            /\ boss' = r.boss
    /\ pc' = "player"
    /\ last' = History("WinConditionUpdate", boss, TRUE, FALSE, FALSE)
    /\ UNCHANGED <<match, mode, moveCount, dt, moveDir, frame>>

\* The goal variant: MatchUpdate in the place of WinConditionUpdate.
GameUpdateMatch ==
    /\ pc = "win"
    /\ mode = "match"
    /\ \E keyG \in BOOLEAN, keyH \in BOOLEAN :
         /\ (keyG \/ keyH) => match.playerScore + match.enemyScore < MaxGoals
         /\ \E r \in {MatchUpdate(match, ball, player, boss, dt, keyG, keyH)} :
               /\ match' = r.match
               /\ ball' = r.ball
               /\ player' = r.player
               /\ boss' = r.boss
         /\ last' = History("MatchUpdate", boss, TRUE, keyG, keyH)
    /\ pc' = "player"
    /\ UNCHANGED <<win, mode, moveCount, dt, moveDir, frame>>

Next ==
    \/ GameUpdatePlayer
    \/ GameUpdateBall
    \/ GameUpdateSnakeBoss
    \/ GameUpdateWinCondition
    \/ GameUpdateMatch

Spec == Init /\ [][Next]_vars

(* ------------------------------------------------------------------ *)
(* The chase: SnakeBossUpdate called again and again                   *)
(* ------------------------------------------------------------------ *)
\* Arguments of the chase: the grid cell the boss is created at and the
\* position the ball rests at.  The ball lies off the row and the column
\* of the boss, or on its row in the corner of a cell.
ChaseStarts ==
    { [bossX |-> 5, bossY |-> 5, ballX |-> 2125, ballY |-> 2375],
      [bossX |-> 18, bossY |-> 30, ballX |-> 1625, ballY |-> 5125],
      [bossX |-> 10, bossY |-> 5, ballX |-> 1260, ballY |-> 1260] }

\* The states the chase is taken up in: the boss as GameSetSnakeBoss leaves
\* it, and the boss that has just begun to grow or to shrink.
ChaseStates == {SNAKE_STATE_MOVING, SNAKE_STATE_GROWING, SNAKE_STATE_SHRINKING}

\* The boss grows, shrinks or is defeated, or the ball has been set in
\* motion.
ChaseDisturbed ==
    \/ boss.state \notin {SNAKE_STATE_IDLE, SNAKE_STATE_TRACKING, SNAKE_STATE_MOVING}
    \/ ball.speedX # 0
    \/ ball.speedY # 0

\* The chase is over: the ball has been hit and set in motion, or the boss
\* is defeated.
ChaseOver ==
    \/ boss.state = SNAKE_STATE_DEFEATED
    \/ ball.speedX # 0
    \/ ball.speedY # 0

\* A game with the ball at rest off the walls and the boss as
\* GameSetSnakeBoss makes it, moving, or growing or shrinking with its
\* timer at zero as a hit leaves it.
ChaseInit ==
    \E s \in ChaseStarts, len \in 1..MaxInitialLength, st \in ChaseStates :
       /\ ball = BallCreate(s.ballX, s.ballY, BALL_STATE_NEUTRAL)
       /\ player = PlayerCreate(HalfPx(WORLD_WIDTH * TILE_WIDTH),
                                HalfPx(WORLD_HEIGHT * TILE_HEIGHT))
       /\ boss = [GameSetSnakeBoss(s.bossX, s.bossY, len, ball) EXCEPT !.state = st]
       /\ win = InitializeWinCondition
       /\ match = MatchCreate(MATCH_DURATION_MINUTES * 60 * 20)
       /\ mode = "hole"
       /\ moveCount = 0
       /\ dt = 0
       /\ moveDir = <<0, 0>>
       /\ pc = "boss"
       /\ frame = 0
       /\ last = [op |-> "GameInitialize",
                  pre |-> [boss |-> boss, ball |-> ball, player |-> player,
                           win |-> win, match |-> match],
                  mid |-> boss, allocOk |-> TRUE, keyG |-> FALSE, keyH |-> FALSE]

\* One call of SnakeBossUpdate with a positive frame time, as long as the
\* chase goes on.
ChaseUpdate ==
    /\ ~ChaseOver
    /\ \E d \in FrameTimes :
         \E mid \in {SyncEntityToHead(SnakeBossStateStep(boss, ball, d, moveCount).boss)} :
           \E r \in {SnakeBossUpdate(boss, ball, player, d, moveCount, TRUE)} :
              /\ dt' = d
              /\ boss' = r.boss
              /\ ball' = r.ball
              /\ player' = r.player
              /\ moveCount' = r.moveCount
              /\ last' = History("SnakeBossUpdate", mid, TRUE, FALSE, FALSE)
    /\ UNCHANGED <<win, match, mode, moveDir, pc, frame>>

ChaseNext == ChaseUpdate

\* SnakeBossUpdate is called in every frame (game.c:348-354).
ChaseSpec == ChaseInit /\ [][ChaseNext]_vars /\ WF_vars(ChaseUpdate)

(* ------------------------------------------------------------------ *)
(* The win hole: WinConditionUpdate called again and again             *)
(* ------------------------------------------------------------------ *)
\* Where the ball lies when the updates begin: on the centre of the hole,
\* in the hole off its centre, and outside the hole; and the health the
\* player has.
HoleStarts ==
    { [ballX |-> InitializeWinCondition.x + ox, ballY |-> InitializeWinCondition.y,
       health |-> h] : ox \in {0, Px(5), Px(30)}, h \in {100, 20} }

HoleInit ==
    \E s \in HoleStarts, st \in BallStates, len \in 1..MaxInitialLength :
       /\ ball = BallCreate(s.ballX, s.ballY, st)
       /\ player = [PlayerCreate(HalfPx(WORLD_WIDTH * TILE_WIDTH),
                                 HalfPx(WORLD_HEIGHT * TILE_HEIGHT))
                      EXCEPT !.currentHealth = s.health]
       /\ boss = GameSetSnakeBoss(WORLD_WIDTH \div 2 + 5, WORLD_HEIGHT \div 2, len, ball)
       /\ win = InitializeWinCondition
       /\ match = MatchCreate(MATCH_DURATION_MINUTES * 60 * 20)
       /\ mode = "hole"
       /\ moveCount = 0
       /\ dt = 0
       /\ moveDir = <<0, 0>>
       /\ pc = "win"
       /\ frame = 0
       /\ last = [op |-> "GameInitialize",
                  pre |-> [boss |-> boss, ball |-> ball, player |-> player,
                           win |-> win, match |-> match],
                  mid |-> boss, allocOk |-> TRUE, keyG |-> FALSE, keyH |-> FALSE]

\* One call of WinConditionUpdate with a positive frame time.
HoleUpdate ==
    /\ \E d \in FrameTimes, angle \in EjectAngles :
         \E r \in {WinConditionUpdate(win, ball, player, boss, d, angle)} :
            /\ dt' = d
            /\ win' = r.win
            /\ ball' = r.ball
            /\ player' = r.player
            /\ boss' = r.boss
    /\ last' = History("WinConditionUpdate", boss, TRUE, FALSE, FALSE)
    /\ UNCHANGED <<match, mode, moveCount, moveDir, pc, frame>>

HoleNext == HoleUpdate

\* WinConditionUpdate is called in every frame of a game whose player is
\* alive.
HoleSpec == HoleInit /\ [][HoleNext]_vars /\ WF_vars(HoleUpdate)

(* ------------------------------------------------------------------ *)
(* Properties                                                          *)
(* ------------------------------------------------------------------ *)
\* The SnakeBossUpdate that has just returned found the ball on the head
\* (the test of snake_boss.c:647 on the boss as the switch left it).
HeadCollision ==
    /\ last.op = "SnakeBossUpdate"
    /\ BallHitsHead(last.mid, last.pre.ball)

\* The WinConditionUpdate that has just returned started idle with the ball
\* inside the hole.
BallEnteredHole ==
    /\ last.op = "WinConditionUpdate"
    /\ last.pre.win.state = WIN_STATE_IDLE
    /\ WinConditionCheckBallInHole(last.pre.win, last.pre.ball)

\* The MatchUpdate that has just returned was playing, with no debug key
\* pressed, and found the ball in the goal.
BallEnteredGoal ==
    /\ last.op = "MatchUpdate"
    /\ ~last.keyG /\ ~last.keyH
    /\ last.pre.match.state = MATCH_STATE_PLAYING
    /\ last.pre.match.currentTime - dt > 0
    /\ BallInGoal(last.pre.ball)

\* The grid cells of the segments of boss b.
GridOf(b) == [i \in 1..b.segmentCount |-> <<b.segments[i].gridX, b.segments[i].gridY>>]

C3_HeadIsKept ==
    /\ boss.segmentCount >= 1
    /\ Len(boss.segments) = boss.segmentCount
    /\ last.mid.segmentCount >= 1
    /\ boss.state # SNAKE_STATE_DEFEATED => boss.segmentCount >= 1

\* A player score in the win hole has asked a boss of three segments for
\* three shrinks, and the boss is left with its head.
C3_Witness ==
    /\ BallEnteredHole
    /\ last.pre.ball.state = BALL_STATE_PLAYER
    /\ last.pre.boss.state # SNAKE_STATE_DEFEATED
    /\ last.pre.boss.segmentCount = WIN_PLAYER_SEGMENTS_SNAKEBOSS
    /\ boss.segmentCount = 1

\* C4 as the specification states it: a SnakeBossUpdate or a
\* WinConditionUpdate that starts with the boss defeated leaves it defeated,
\* with the same segment count and the same grid cells.
C4_AsStated ==
    (last.op \in {"SnakeBossUpdate", "WinConditionUpdate"}
       /\ last.pre.boss.state = SNAKE_STATE_DEFEATED)
    => /\ boss.state = SNAKE_STATE_DEFEATED
       /\ boss.segmentCount = last.pre.boss.segmentCount
       /\ GridOf(boss) = GridOf(last.pre.boss)

\* C5: SnakeBossShrink on a boss of one segment returns false and changes
\* nothing; when a player-owned ball on the head, or a player score in the
\* win hole, has brought the boss to that call, the boss is defeated with
\* one segment when the update returns, and a head hit leaves its
\* moveInterval as it was.
C5_ShrinkAtOneSegment ==
    /\ boss.segmentCount = 1
         => SnakeBossShrink(boss) = [ok |-> FALSE, boss |-> boss]
    /\ last.mid.segmentCount = 1
         => SnakeBossShrink(last.mid) = [ok |-> FALSE, boss |-> last.mid]
    /\ (HeadCollision /\ last.pre.ball.state = BALL_STATE_PLAYER
          /\ last.mid.segmentCount = 1
          /\ last.mid.state \notin {SNAKE_STATE_SHRINKING, SNAKE_STATE_DEFEATED})
         => /\ boss.state = SNAKE_STATE_DEFEATED
            /\ boss.segmentCount = 1
            /\ boss.moveInterval = last.mid.moveInterval
    /\ (BallEnteredHole /\ last.pre.ball.state = BALL_STATE_PLAYER
          /\ last.pre.boss.state # SNAKE_STATE_DEFEATED
          /\ last.pre.boss.segmentCount <= WIN_PLAYER_SEGMENTS_SNAKEBOSS)
         => /\ boss.state = SNAKE_STATE_DEFEATED
            /\ boss.segmentCount = 1

\* A player-owned ball has hit the head of a moving boss of one segment.
C5_Witness ==
    /\ HeadCollision
    /\ last.pre.ball.state = BALL_STATE_PLAYER
    /\ last.mid.segmentCount = 1
    /\ last.mid.state = SNAKE_STATE_MOVING
    /\ boss.state = SNAKE_STATE_DEFEATED

\* The cell next to the head of b in direction d is one the boss may enter.
CanStep(b, d) ==
    LET c == StepCell(b.segments[1].gridX, b.segments[1].gridY, d)
    IN  SnakeBossIsValidPosition(b, c.x, c.y)

\* Targets a reversal would serve best: the two cells straight behind the
\* head of b; and the cell of the ball.
TargetsBehind(b) ==
    LET back == OppositeDir(b.currentDir)
        c1 == StepCell(b.segments[1].gridX, b.segments[1].gridY, back)
        c2 == StepCell(c1.x, c1.y, back)
    IN  { <<c1.x, c1.y>>, <<c2.x, c2.y>>, <<BallGridX(ball), BallGridY(ball)>> }

\* C6: for the boss as it is, with the ball's cell or a cell straight
\* behind the head as target, SnakeBossFindPath leaves nextDir different
\* from the opposite of currentDir, and changes nothing when no direction
\* other than the opposite can be entered; and the direction a move commits
\* is never the opposite of the direction the previous move committed.
C6_NoReversal ==
    /\ \A t \in TargetsBehind(boss) :
         LET r == SnakeBossFindPath(boss, t[1], t[2])
         IN  /\ r.nextDir # OppositeDir(boss.currentDir)
             /\ (\A d \in {DIRECTION_UP, DIRECTION_RIGHT, DIRECTION_DOWN, DIRECTION_LEFT} :
                    d # OppositeDir(boss.currentDir) => ~CanStep(boss, d))
                  => r = boss
    /\ (last.op = "SnakeBossUpdate"
          /\ last.pre.boss.state = SNAKE_STATE_MOVING
          /\ last.pre.boss.moveTimer + dt >= last.pre.boss.moveInterval)
         => boss.currentDir # OppositeDir(last.pre.boss.currentDir)

\* SnakeBossFindPath has chosen a direction for a tracking boss that could
\* have entered the cell behind it.
C6_Witness ==
    /\ last.op = "SnakeBossUpdate"
    /\ last.pre.boss.state = SNAKE_STATE_TRACKING
    /\ CanStep(last.pre.boss, OppositeDir(last.pre.boss.currentDir))
    /\ last.mid.nextDir # last.pre.boss.nextDir
    /\ last.mid.nextDir # OppositeDir(last.pre.boss.currentDir)

\* C7: a neutral ball that enters the win hole, or the goal of the match
\* variant, changes no score, leaves the player's health as it was and
\* leaves the snake boss as it was.
C7_NeutralBallScoresNothing ==
    /\ (BallEnteredHole /\ last.pre.ball.state = BALL_STATE_NEUTRAL)
         => /\ player.currentHealth = last.pre.player.currentHealth
            /\ boss = last.pre.boss
            /\ match = last.pre.match
    /\ (BallEnteredGoal /\ last.pre.ball.state = BALL_STATE_NEUTRAL)
         => /\ match.playerScore = last.pre.match.playerScore
            /\ match.enemyScore = last.pre.match.enemyScore
            /\ match.state = MATCH_STATE_PLAYING
            /\ player.currentHealth = last.pre.player.currentHealth
            /\ boss = last.pre.boss

\* A neutral ball has entered the win hole and is held there.
C7_Witness ==
    /\ BallEnteredHole
    /\ last.pre.ball.state = BALL_STATE_NEUTRAL
    /\ win.state = WIN_STATE_NEUTRAL_HOLD
    /\ ball.x = win.x /\ ball.y = win.y

\* The WinConditionUpdate that has just returned held the ball and found
\* the hold time elapsed.
BallEjected ==
    /\ last.op = "WinConditionUpdate"
    /\ last.pre.win.state = WIN_STATE_NEUTRAL_HOLD
    /\ last.pre.win.stateTimer + dt >= WIN_NEUTRAL_BALL_HOLD_TIME

\* C8: when the hold time has elapsed and WinConditionUpdate ejects the
\* ball, the ball is farther from the hole centre than the hole radius,
\* WinConditionCheckBallInHole is false, the ball is neutral and the win
\* state is idle.
C8_EjectedBallIsOutside ==
    BallEjected
    => /\ Sq(ball.x - win.x) + Sq(ball.y - win.y) > Sq(win.radius)
       /\ ~WinConditionCheckBallInHole(win, ball)
       /\ ball.state = BALL_STATE_NEUTRAL
       /\ win.state = WIN_STATE_IDLE

\* The ball has been ejected after a hold, and is moving.
C8_Witness ==
    /\ BallEjected
    /\ win.state = WIN_STATE_IDLE
    /\ ball.speedX # 0 \/ ball.speedY # 0

\* C9: an enemy-owned ball inside the hole of an idle win condition costs
\* the player WIN_ENEMY_DAMAGE_TO_PLAYER health in one WinConditionUpdate,
\* floored at zero, and leaves the snake boss as it was.
C9_EnemyScoreDamage ==
    (BallEnteredHole /\ last.pre.ball.state = BALL_STATE_SNAKE)
    => /\ player.currentHealth =
            Max(0, last.pre.player.currentHealth - WIN_ENEMY_DAMAGE_TO_PLAYER)
       /\ boss = last.pre.boss

\* An enemy score has taken a player with less health than the damage to
\* zero health.
C9_Witness ==
    /\ BallEnteredHole
    /\ last.pre.ball.state = BALL_STATE_SNAKE
    /\ last.pre.player.currentHealth > 0
    /\ last.pre.player.currentHealth < WIN_ENEMY_DAMAGE_TO_PLAYER
    /\ player.currentHealth = 0

\* C10 as the specification states it: the WinConditionUpdate that finds an
\* enemy-owned or player-owned ball inside the hole of an idle win
\* condition returns in the state neutral-hold.
C10_AsStated ==
    (BallEnteredHole /\ last.pre.ball.state \in {BALL_STATE_SNAKE, BALL_STATE_PLAYER})
    => win.state = WIN_STATE_NEUTRAL_HOLD

\* C10: the WinConditionUpdate that finds an enemy-owned (player-owned)
\* ball inside the hole of an idle win condition returns in the state
\* enemy-scored (player-scored); the WinConditionUpdate that starts in
\* either scored state returns in neutral-hold with the hold timer at zero.
C10_ScoredThenHold ==
    /\ (BallEnteredHole /\ last.pre.ball.state = BALL_STATE_SNAKE)
         => win.state = WIN_STATE_ENEMY_SCORED
    /\ (BallEnteredHole /\ last.pre.ball.state = BALL_STATE_PLAYER)
         => win.state = WIN_STATE_PLAYER_SCORED
    /\ (last.op = "WinConditionUpdate"
          /\ last.pre.win.state \in {WIN_STATE_PLAYER_SCORED, WIN_STATE_ENEMY_SCORED})
         => /\ win.state = WIN_STATE_NEUTRAL_HOLD
            /\ win.stateTimer = 0

\* The update after an enemy score has taken the win condition to
\* neutral-hold.
C10_Witness ==
    /\ last.op = "WinConditionUpdate"
    /\ last.pre.win.state = WIN_STATE_ENEMY_SCORED
    /\ win.state = WIN_STATE_NEUTRAL_HOLD

\* C11: a player-owned ball that enters the idle win hole applies
\* WIN_PLAYER_SEGMENTS_SNAKEBOSS shrinks to a snake boss that is not
\* defeated: a boss with more segments than that loses exactly that many
\* and is left shrinking with its timer at zero; a boss with at most that
\* many is left with one segment and defeated; the player's health is as it
\* was.
C11_PlayerScoreShrinks ==
    (BallEnteredHole /\ last.pre.ball.state = BALL_STATE_PLAYER
       /\ last.pre.boss.state # SNAKE_STATE_DEFEATED)
    => /\ IF last.pre.boss.segmentCount > WIN_PLAYER_SEGMENTS_SNAKEBOSS
          THEN /\ boss.segmentCount
                    = last.pre.boss.segmentCount - WIN_PLAYER_SEGMENTS_SNAKEBOSS
               /\ boss.state = SNAKE_STATE_SHRINKING
               /\ boss.shrinkTimer = 0
          ELSE /\ boss.segmentCount = 1
               /\ boss.state = SNAKE_STATE_DEFEATED
       /\ player.currentHealth = last.pre.player.currentHealth

\* A player-owned ball has entered the hole with a boss of more segments
\* than the shrink count on the field, which lost that many.
C11_Witness ==
    /\ BallEnteredHole
    /\ last.pre.ball.state = BALL_STATE_PLAYER
    /\ last.pre.boss.state # SNAKE_STATE_DEFEATED
    /\ last.pre.boss.segmentCount > WIN_PLAYER_SEGMENTS_SNAKEBOSS
    /\ boss.segmentCount = last.pre.boss.segmentCount - WIN_PLAYER_SEGMENTS_SNAKEBOSS
    /\ win.state = WIN_STATE_PLAYER_SCORED

\* The BallUpdate that has just returned found the ball within the player's
\* reach (the test of ball.c:259 on the ball as the wall handling left it).
PlayerStruckBall ==
    /\ last.op = "BallUpdate"
    /\ last.pre.ball.active
    /\ BallTouchesPlayer(BallMoved(last.pre.ball), last.pre.player)

\* C12 as the specification states it: a ball the player has struck is
\* player-owned when BallUpdate returns.
C12_AsStated ==
    PlayerStruckBall => ball.state = BALL_STATE_PLAYER

\* The four directions.
Directions == {DIRECTION_UP, DIRECTION_RIGHT, DIRECTION_DOWN, DIRECTION_LEFT}

\* Manhattan distance of the head of b to the cell t.
HeadDist(b, t) ==
    Abs(t[1] - b.segments[1].gridX) + Abs(t[2] - b.segments[1].gridY)

\* None of the four cells next to the head of b is a wall or holds a body
\* segment.
OpenField(b) == \A d \in Directions : CanStep(b, d)

\* Targets on the axes and the diagonals of the head of b, and the cell of
\* the ball.
TargetsNear(b) ==
    { <<b.segments[1].gridX + o[1], b.segments[1].gridY + o[2]>> :
        o \in { <<5, 0>>, <<-5, 0>>, <<0, 5>>, <<0, -5>>,
                <<1, 1>>, <<-1, 1>>, <<1, -1>>, <<-2, -3>> } }
    \cup { <<BallGridX(ball), BallGridY(ball)>> }

\* Manhattan distance to the cell t of the cell next to the head of b in
\* direction d.
StepDist(b, d, t) ==
    HeadDist([segments |-> <<[gridX |-> StepCell(b.segments[1].gridX,
                                                 b.segments[1].gridY, d).x,
                              gridY |-> StepCell(b.segments[1].gridX,
                                                 b.segments[1].gridY, d).y]>>], t)

\* The directions whose step brings the head of b closer to the cell t.
Approaching(b, t) ==
    { d \in Directions : StepDist(b, d, t) = HeadDist(b, t) - 1 }

\* C13 as the specification states it: in the open field, with a target
\* that is not the head's cell, the direction SnakeBossFindPath selects
\* brings the head one cell closer, whatever the current direction is.
C13_AsStated ==
    (pc = "boss" /\ OpenField(boss)) =>
      \A t \in TargetsNear(boss), d \in Directions :
         HeadDist(boss, t) # 0 =>
           StepDist(boss, SnakeBossFindPath([boss EXCEPT !.currentDir = d],
                                            t[1], t[2]).nextDir, t)
             = HeadDist(boss, t) - 1

\* C13: for the boss as SnakeBossUpdate finds it in the open field, with a
\* target that is not the head's cell and whatever the current direction
\* is, the direction SnakeBossFindPath selects brings the head one cell
\* closer whenever a direction that does so is not the reverse of the
\* current direction; when the reverse is the only such direction (the
\* target lies straight behind the head), the selected direction is not the
\* reverse and takes the head one cell farther away.
C13_CloserUnlessBehind ==
    (pc = "boss" /\ OpenField(boss)) =>
      \A t \in TargetsNear(boss), d \in Directions :
         HeadDist(boss, t) # 0 =>
           LET r == SnakeBossFindPath([boss EXCEPT !.currentDir = d], t[1], t[2])
           IN  /\ r.nextDir # OppositeDir(d)
               /\ StepDist(boss, r.nextDir, t)
                    = IF Approaching(boss, t) \ {OppositeDir(d)} # {}
                      THEN HeadDist(boss, t) - 1
                      ELSE HeadDist(boss, t) + 1

\* SnakeBossUpdate has searched the path for a tracking boss in the open
\* field, and the direction it selected leads towards the ball's cell.
C13_Witness ==
    /\ last.op = "SnakeBossUpdate"
    /\ last.pre.boss.state = SNAKE_STATE_TRACKING
    /\ OpenField(last.pre.boss)
    /\ HeadDist(last.pre.boss, <<last.mid.targetGridX, last.mid.targetGridY>>) # 0
    /\ last.mid.nextDir # last.pre.boss.nextDir
    /\ last.mid.nextDir
         \in Approaching(last.pre.boss, <<last.mid.targetGridX, last.mid.targetGridY>>)

\* C14: when WinConditionUpdate has left the idle state because the ball
\* was in the hole, whoever owned the ball, the ball is at the centre of
\* the hole and at rest.
C14_CaughtBallIsCentred ==
    BallEnteredHole
    => /\ win.state # WIN_STATE_IDLE
       /\ ball.x = win.x /\ ball.y = win.y
       /\ ball.speedX = 0 /\ ball.speedY = 0

\* A moving ball has entered the hole off its centre and has been stopped
\* there.
C14_Witness ==
    /\ BallEnteredHole
    /\ last.pre.ball.speedX # 0 \/ last.pre.ball.speedY # 0
    /\ last.pre.ball.x # win.x \/ last.pre.ball.y # win.y
    /\ ball.speedX = 0 /\ ball.speedY = 0
    /\ ball.x = win.x /\ ball.y = win.y

\* The WinConditionUpdate that has just returned ran in the neutral hold
\* and the hold time had not elapsed.
BallHeld ==
    /\ last.op = "WinConditionUpdate"
    /\ last.pre.win.state = WIN_STATE_NEUTRAL_HOLD
    /\ last.pre.win.stateTimer + dt < WIN_NEUTRAL_BALL_HOLD_TIME

\* C15: a WinConditionUpdate in the neutral hold that does not eject leaves
\* the ball at the centre of the hole, at rest and neutral, and stays in
\* the hold, whatever happened to the ball earlier in the frame.
C15_HeldBallIsReset ==
    BallHeld
    => /\ ball.x = win.x /\ ball.y = win.y
       /\ ball.speedX = 0 /\ ball.speedY = 0
       /\ ball.state = BALL_STATE_NEUTRAL
       /\ win.state = WIN_STATE_NEUTRAL_HOLD

\* The snake boss has taken the held ball and pushed it earlier in the
\* frame; the hold has made it neutral again and put it back at rest.
C15_Witness ==
    /\ BallHeld
    /\ last.pre.ball.state = BALL_STATE_SNAKE
    /\ last.pre.ball.speedX # 0 \/ last.pre.ball.speedY # 0
    /\ ball.state = BALL_STATE_NEUTRAL
    /\ ball.speedX = 0 /\ ball.speedY = 0

\* WorldIsWallAtPosition for a world pointer that may be null (world.c:136).
WorldIsWallAtPositionOrNull(world, x, y) ==
    IF world = "NULL" THEN TRUE ELSE WorldIsWallAtPosition(x, y)

\* Coordinates on both sides of the two ends of an axis of n tiles of size
\* tile, in model units; the first three and the last two lie outside.
AxisSamples(n, tile) ==
    { -2 * Px(tile) - 1, -Px(tile) - 1, -1, 0, Px(tile) + 5,
      n * Px(tile) - 1, n * Px(tile), (n + 1) * Px(tile) + 3 }

\* The position (x, y) lies outside the world of WORLD_WIDTH x WORLD_HEIGHT
\* tiles.
OutsideWorld(x, y) ==
    \/ x < 0 \/ x >= WORLD_WIDTH * Px(TILE_WIDTH)
    \/ y < 0 \/ y >= WORLD_HEIGHT * Px(TILE_HEIGHT)

\* The cell (gx, gy) lies inside the grid.
InsideGrid(gx, gy) ==
    gx \in 0..(WORLD_WIDTH - 1) /\ gy \in 0..(WORLD_HEIGHT - 1)

\* Cells on both sides of the border of the grid.
BorderCells ==
    { <<gx, gy>> \in ({-2, -1, 0, 1, WORLD_WIDTH - 1, WORLD_WIDTH, WORLD_WIDTH + 1}
                      \X {-2, -1, 0, 3, WORLD_HEIGHT - 1, WORLD_HEIGHT, WORLD_HEIGHT + 1}) :
        TRUE }

\* C16: WorldIsWallAtPosition is true for every position outside the world
\* and for a null world; SnakeBossIsValidPosition rejects every cell
\* outside the grid; and the head of the snake boss is on a cell inside the
\* grid.
C16_FailClosed ==
    /\ \A x \in AxisSamples(WORLD_WIDTH, TILE_WIDTH),
          y \in AxisSamples(WORLD_HEIGHT, TILE_HEIGHT) :
          /\ OutsideWorld(x, y) => WorldIsWallAtPosition(x, y)
          /\ WorldIsWallAtPositionOrNull("NULL", x, y)
    /\ \A c \in BorderCells :
          ~InsideGrid(c[1], c[2]) => ~SnakeBossIsValidPosition(boss, c[1], c[2])
    /\ InsideGrid(boss.segments[1].gridX, boss.segments[1].gridY)

\* The snake boss was due to move onto a wall cell; the move was refused
\* and the head is where it was.
C16_Witness ==
    /\ last.op = "SnakeBossUpdate"
    /\ last.pre.boss.state = SNAKE_STATE_MOVING
    /\ last.pre.boss.moveTimer + dt >= last.pre.boss.moveInterval
    /\ ~CanStep(last.pre.boss, last.pre.boss.nextDir)
    /\ GridOf(boss) = GridOf(last.pre.boss)
    /\ InsideGrid(boss.segments[1].gridX, boss.segments[1].gridY)

\* The SnakeBossUpdate that has just returned found the ball off the head
\* and on a body segment (the test of snake_boss.c:714 on the boss as the
\* switch left it).
BodyOnlyCollision ==
    /\ last.op = "SnakeBossUpdate"
    /\ last.pre.boss.segmentCount > 0
    /\ ~BallHitsHead(last.mid, last.pre.ball)
    /\ \E i \in 2..last.mid.segmentCount : BallHitsSegment(last.mid, last.pre.ball, i)

\* The return value of the SnakeBossHandleBallCollision of the
\* SnakeBossUpdate that has just returned.
CollisionReturned ==
    SnakeBossHandleBallCollision(last.mid, last.pre.ball, last.pre.player,
                                 last.allocOk).hit

\* C17 as the specification states it: a ball on a body segment only is
\* ignored unless it is player-owned, and a player-owned one makes the boss
\* lose a segment or be defeated.
C17_AsStated ==
    BodyOnlyCollision
    => IF last.pre.ball.state # BALL_STATE_PLAYER
       THEN ~CollisionReturned /\ boss = last.mid /\ ball = last.pre.ball
       ELSE \/ boss.segmentCount = last.mid.segmentCount - 1
            \/ boss.state = SNAKE_STATE_DEFEATED /\ last.mid.state # SNAKE_STATE_DEFEATED

\* C17: a ball that is on a body segment and not on the head is ignored
\* unless it is player-owned: the collision returns false and changes
\* neither the boss nor the ball.  A player-owned one makes the collision
\* return true; a boss that is neither shrinking nor defeated loses exactly
\* one segment and is left shrinking with its timer at zero, as on a head
\* hit, and the ball stays player-owned; a boss that is shrinking or
\* defeated and the ball are left as they were.
C17_BodyHit ==
    BodyOnlyCollision
    => IF last.pre.ball.state # BALL_STATE_PLAYER
       THEN ~CollisionReturned /\ boss = last.mid /\ ball = last.pre.ball
       ELSE /\ CollisionReturned
            /\ IF last.mid.state \in {SNAKE_STATE_SHRINKING, SNAKE_STATE_DEFEATED}
               THEN boss = last.mid /\ ball = last.pre.ball
               ELSE /\ boss.segmentCount = last.mid.segmentCount - 1
                    /\ boss.state = SNAKE_STATE_SHRINKING
                    /\ boss.shrinkTimer = 0
                    /\ ball.state = BALL_STATE_PLAYER

\* A player-owned ball has hit the body of the boss behind its head, and
\* the boss has lost a segment.
C17_Witness ==
    /\ BodyOnlyCollision
    /\ last.pre.ball.state = BALL_STATE_PLAYER
    /\ last.mid.state \notin {SNAKE_STATE_SHRINKING, SNAKE_STATE_DEFEATED}
    /\ boss.segmentCount = last.mid.segmentCount - 1
    /\ boss.state = SNAKE_STATE_SHRINKING

\* The GameUpdate that has just returned ended the death sequence with
\* GameReset.
GameWasReset ==
    /\ last.op = "PlayerUpdate"
    /\ last.pre.player.state = PLAYER_STATE_DEAD
    /\ player.state = PLAYER_STATE_ALIVE

\* C18 as the specification states it: after GameReset the player is alive
\* at the centre of the world with full health, the ball is at rest next to
\* the player and neutral, the snake boss is as GameInitialize made it
\* (three segments from the cell five right of the centre, moving) and the
\* win hole is idle.
C18_AsStated ==
    GameWasReset
    => /\ player.state = PLAYER_STATE_ALIVE
       /\ player.x = HalfPx(WORLD_WIDTH * TILE_WIDTH)
       /\ player.y = HalfPx(WORLD_HEIGHT * TILE_HEIGHT)
       /\ player.currentHealth = player.maxHealth
       /\ ball.x = player.x + Px(20) /\ ball.y = player.y + Px(20)
       /\ ball.speedX = 0 /\ ball.speedY = 0
       /\ ball.state = BALL_STATE_NEUTRAL
       /\ boss = GameSetSnakeBoss(WORLD_WIDTH \div 2 + 5, WORLD_HEIGHT \div 2, 3, ball)
       /\ win = InitializeWinCondition

\* Forces BallApplyForce is tried with, in tenths of a pixel per tick.
ForceSamples == { <<0, 0>>, <<60, 0>>, <<-25, 40>>, <<0, -300>>, <<200, 200>> }

\* C19: BallUpdate leaves the ownership of the ball as it was, and so does
\* each of its parts without the player collision (integration, friction,
\* wall and world-boundary bounces, zeroing of a residual speed), and so do
\* BallApplyForce and BallReset, the BallReset of GameReset included.
C19_OwnershipKept ==
    /\ last.op = "BallUpdate" => ball.state = last.pre.ball.state
    /\ GameWasReset => ball.state = last.pre.ball.state
    /\ pc = "ball" =>
         /\ BallMoved(ball).state = ball.state
         /\ BallStopIfSlow(ball).state = ball.state
         /\ BallStopIfSlow(BallMoved(ball)).state = ball.state
         /\ \A f \in ForceSamples : BallApplyForce(ball, f[1], f[2]).state = ball.state
         /\ BallReset(ball, player.x, player.y).state = ball.state

\* BallUpdate has moved and slowed a ball that is owned, and it is owned as
\* before.
C19_Witness ==
    /\ last.op = "BallUpdate"
    /\ last.pre.ball.state # BALL_STATE_NEUTRAL
    /\ ball.state = last.pre.ball.state
    /\ <<ball.x, ball.y>> # <<last.pre.ball.x, last.pre.ball.y>>
    /\ <<ball.speedX, ball.speedY>> # <<last.pre.ball.speedX, last.pre.ball.speedY>>

\* The place of direction d in the order in which SnakeBossFindPath
\* evaluates the candidates.
EvalOrder(d) ==
    CASE d = DIRECTION_UP -> 1
      [] d = DIRECTION_RIGHT -> 2
      [] d = DIRECTION_DOWN -> 3
      [] d = DIRECTION_LEFT -> 4

\* The candidates of SnakeBossFindPath: the directions whose neighbour cell
\* the boss may enter and that do not reverse its current direction.
Candidates(b) ==
    { d \in Directions : CanStep(b, d) /\ d # OppositeDir(b.currentDir) }

\* Candidate d is at least as good as candidate e for the target t: nearer,
\* or as near and not later in the evaluation order.
Beats(b, d, e, t) ==
    \/ StepDist(b, d, t) < StepDist(b, e, t)
    \/ StepDist(b, d, t) = StepDist(b, e, t) /\ EvalOrder(d) <= EvalOrder(e)

\* The targets the selection is tried with: the cells behind the head of b,
\* the cell of the ball, and cells on an axis and off the axes of the head.
PathTargets(b) ==
    TargetsBehind(b)
    \cup { <<b.segments[1].gridX + o[1], b.segments[1].gridY + o[2]>> :
             o \in { <<1, 1>>, <<-1, 1>>, <<0, -5>>, <<-2, -3>> } }

\* SnakeBossFindPath applied to b with the target t has set nextDir to the
\* best of the candidates cs and has changed nothing else, or has changed
\* nothing when there is no candidate.
SelectsBest(b, t, cs) ==
    \A r \in {SnakeBossFindPath(b, t[1], t[2])} :
       IF cs = {}
       THEN r = b
       ELSE /\ r.nextDir \in cs
            /\ \A e \in cs : Beats(b, r.nextDir, e, t)
            /\ r = [b EXCEPT !.nextDir = r.nextDir]

\* C20: for the boss as it is and for each current direction it may have,
\* and for each target, SnakeBossFindPath sets nextDir to the candidate
\* (neighbour cell up, right, down or left that is neither a wall nor held
\* by a body segment, and not the reverse of the current direction) that is
\* nearest to the target in Manhattan distance, the earlier one in the
\* order up, right, down, left on equal distances, also when every
\* candidate is farther from the target than the head; it changes nothing
\* else, and nothing at all when there is no candidate.
C20_NearestCandidateFirst ==
    pc = "boss" =>
      \A cd \in Directions :
         \A cs \in {Candidates([boss EXCEPT !.currentDir = cd])} :
            \A t \in PathTargets(boss) :
               SelectsBest([boss EXCEPT !.currentDir = cd], t, cs)

\* The boss is about to be updated; towards the ball's cell two candidates
\* are equally near and nearest and the earlier one is selected, and
\* towards a cell behind the head every candidate is farther away than the
\* head and the best one is selected all the same.
C20_Witness ==
    /\ pc = "boss"
    /\ \E d, e \in Candidates(boss) :
          /\ EvalOrder(d) < EvalOrder(e)
          /\ StepDist(boss, d, <<BallGridX(ball), BallGridY(ball)>>)
               = StepDist(boss, e, <<BallGridX(ball), BallGridY(ball)>>)
          /\ \A c \in Candidates(boss) :
                Beats(boss, d, c, <<BallGridX(ball), BallGridY(ball)>>)
          /\ SnakeBossFindPath(boss, BallGridX(ball), BallGridY(ball)).nextDir = d
    /\ \E t \in TargetsBehind(boss) :
          /\ \A c \in Candidates(boss) : StepDist(boss, c, t) > HeadDist(boss, t)
          /\ SnakeBossFindPath(boss, t[1], t[2]).nextDir \in Candidates(boss)

\* The head of the boss is on the grid cell of the ball.
HeadOnBallCell ==
    /\ boss.segments[1].gridX = BallGridX(ball)
    /\ boss.segments[1].gridY = BallGridY(ball)

\* The cell (gx, gy) is a wall that is not part of the border of the arena.
InteriorWall(gx, gy) ==
    /\ gx > 0 /\ gx < WORLD_WIDTH - 1
    /\ gy > 0 /\ gy < WORLD_HEIGHT - 1
    /\ WorldIsWallAtPosition(gx * Px(TILE_WIDTH) + HalfPx(TILE_WIDTH),
                             gy * Px(TILE_HEIGHT) + HalfPx(TILE_HEIGHT))

\* One of the four cells next to (gx, gy) is a wall inside the arena.
InteriorWallNextTo(gx, gy) ==
    \E d \in Directions : InteriorWall(StepCell(gx, gy, d).x, StepCell(gx, gy, d).y)

\* The next SnakeBossUpdate asks for a cell that is a wall inside the
\* arena: the path search of a tracking boss looks at the cells next to the
\* head, the step of a moving boss at the cell ahead, and the path search
\* after the step, made when the ball has left the target, at the cells
\* next to the head where the step leaves it.
InteriorWallTested ==
    \/ /\ boss.state \in {SNAKE_STATE_IDLE, SNAKE_STATE_TRACKING}
       /\ InteriorWallNextTo(boss.segments[1].gridX, boss.segments[1].gridY)
    \/ /\ boss.state = SNAKE_STATE_MOVING
       /\ \E c \in {StepCell(boss.segments[1].gridX, boss.segments[1].gridY, boss.nextDir)} :
             \/ InteriorWall(c.x, c.y)
             \/ /\ <<BallGridX(ball), BallGridY(ball)>> # <<boss.targetGridX, boss.targetGridY>>
                /\ \/ InteriorWallNextTo(c.x, c.y)
                   \/ InteriorWallNextTo(boss.segments[1].gridX, boss.segments[1].gridY)

\* C21 as the specification states it: with the ball at rest on a free
\* cell, the boss that is updated again and again eventually has its head
\* on the ball's cell, unless it grows or shrinks or the ball is set in
\* motion before, or a wall other than the border of the arena comes into
\* one of its decisions.
C21_AsStated == <>(HeadOnBallCell \/ ChaseDisturbed \/ InteriorWallTested)

\* The SnakeBossUpdate that has just returned found the boss growing or
\* shrinking.
UpdatedInTransition ==
    /\ last.op = "SnakeBossUpdate"
    /\ last.pre.boss.state \in {SNAKE_STATE_GROWING, SNAKE_STATE_SHRINKING}

\* The time the boss had spent growing or shrinking when the update began.
TransitionTimer(b) ==
    IF b.state = SNAKE_STATE_GROWING THEN b.growTimer ELSE b.shrinkTimer

\* The fixed duration of the state of b.
TransitionTime(b) ==
    IF b.state = SNAKE_STATE_GROWING THEN SNAKE_GROW_TIME ELSE SNAKE_SHRINK_TIME

\* C22: an update that finds the boss growing or shrinking moves no
\* segment; when the time spent in the state and the frame time together
\* reach the fixed duration, its state switch leaves the boss tracking with
\* hasTarget cleared and the timer at zero, and otherwise in the same state
\* with the frame time added to the timer; and a boss that grows or shrinks
\* and is updated again and again is tracking at some later time, unless
\* the ball is hit before.
C22_TransitionEnds ==
    /\ [](UpdatedInTransition =>
            /\ last.mid.segments = last.pre.boss.segments
            /\ IF TransitionTimer(last.pre.boss) + dt >= TransitionTime(last.pre.boss)
               THEN /\ last.mid.state = SNAKE_STATE_TRACKING
                    /\ ~last.mid.hasTarget
                    /\ TransitionTimer([last.mid EXCEPT !.state = last.pre.boss.state]) = 0
               ELSE /\ last.mid.state = last.pre.boss.state
                    /\ TransitionTimer(last.mid) = TransitionTimer(last.pre.boss) + dt)
    /\ (boss.state \in {SNAKE_STATE_GROWING, SNAKE_STATE_SHRINKING})
         ~> (boss.state = SNAKE_STATE_TRACKING \/ ChaseOver)

\* An update has found the boss growing with the time up, and has left it
\* tracking without a target.
C22_Witness ==
    /\ UpdatedInTransition
    /\ last.pre.boss.state = SNAKE_STATE_GROWING
    /\ last.pre.boss.growTimer > 0
    /\ boss.state = SNAKE_STATE_TRACKING
    /\ ~boss.hasTarget
    /\ ~ChaseOver

\* The SnakeBossUpdate that comes next finds the boss moving with its move
\* timer due, so that it attempts a step.
MoveDue ==
    /\ pc = "boss"
    /\ boss.segmentCount > 0
    /\ boss.state = SNAKE_STATE_MOVING
    /\ boss.moveTimer + dt >= boss.moveInterval

\* The step the SnakeBossUpdate that comes next attempts: [moved, boss].
StepAttempt ==
    SnakeBossMove([boss EXCEPT !.moveTimer = 0, !.currentDir = boss.nextDir])

\* C23 as the specification states it: the counter of SnakeBossUpdate
\* counts the successful moves of the boss and nothing else; a successful
\* move advances it by one, and the third one clears it and leaves the
\* ball's grid cell as the target; an update whose step is blocked, or
\* that attempts no step, leaves the counter as it is.
C23_AsStated ==
    [][pc = "boss" =>
         IF MoveDue /\ StepAttempt.moved
         THEN /\ moveCount' = (moveCount + 1) % 3
              /\ moveCount = 2 =>
                    /\ boss'.targetGridX = BallGridX(ball)
                    /\ boss'.targetGridY = BallGridY(ball)
         ELSE moveCount' = moveCount]_vars

\* The SnakeBossUpdate that has just returned found the boss moving.
UpdatedInMoving ==
    /\ last.op = "SnakeBossUpdate"
    /\ last.pre.boss.segmentCount > 0
    /\ last.pre.boss.state = SNAKE_STATE_MOVING

\* The move timer of the boss was due in the SnakeBossUpdate that has just
\* returned.
TimerWasDue == last.pre.boss.moveTimer + dt >= last.pre.boss.moveInterval

\* The head of b is on the cell next to the head of a in direction d.
HeadStepped(a, b, d) ==
    /\ b.segments[1].gridX = StepCell(a.segments[1].gridX, a.segments[1].gridY, d).x
    /\ b.segments[1].gridY = StepCell(a.segments[1].gridX, a.segments[1].gridY, d).y

\* C24: an update that finds the boss moving with the move timer not yet
\* at moveInterval adds the frame time to the timer and moves no segment
\* and changes no direction; one that finds the timer due leaves the timer
\* at zero and the direction that was queued as the current direction, and
\* the head either one cell on in that direction or, with all segments,
\* where it was, also when the frame time covers several intervals.
C24_OneStepWhenDue ==
    UpdatedInMoving =>
      IF TimerWasDue
      THEN /\ last.mid.moveTimer = 0
           /\ last.mid.currentDir = last.pre.boss.nextDir
           /\ \/ HeadStepped(last.pre.boss, last.mid, last.pre.boss.nextDir)
              \/ [i \in 1..last.mid.segmentCount |->
                    <<last.mid.segments[i].gridX, last.mid.segments[i].gridY>>]
                 = [i \in 1..last.pre.boss.segmentCount |->
                    <<last.pre.boss.segments[i].gridX, last.pre.boss.segments[i].gridY>>]
      ELSE /\ last.mid.moveTimer = last.pre.boss.moveTimer + dt
           /\ last.mid.segments = last.pre.boss.segments
           /\ last.mid.currentDir = last.pre.boss.currentDir
           /\ last.mid.nextDir = last.pre.boss.nextDir
           /\ last.mid.state = SNAKE_STATE_MOVING

\* An update has found the boss moving with a frame time of two intervals
\* or more and a queued direction other than the current one, and has moved
\* the head one cell in the queued direction.
C24_Witness ==
    /\ UpdatedInMoving
    /\ last.pre.boss.moveTimer + dt >= 2 * last.pre.boss.moveInterval
    /\ last.pre.boss.nextDir # last.pre.boss.currentDir
    /\ HeadStepped(last.pre.boss, last.mid, last.pre.boss.nextDir)
    /\ last.mid.moveTimer = 0

\* The move timer of the boss was due in the SnakeBossUpdate that has just
\* returned, and none of the cells next to its head was a valid candidate.
AttemptWithoutCandidate ==
    /\ UpdatedInMoving
    /\ TimerWasDue
    /\ Candidates(last.pre.boss) = {}

\* C25: SnakeBossFindPath applied to a boss without a valid candidate, as it
\* is or with another current direction, leaves the boss and its
\* directions as they are; and a move attempt of a boss without a valid
\* candidate moves no segment and leaves the boss tracking, without a
\* target, for the next update to search a path again.
C25_NoCandidateReplans ==
    /\ pc = "boss" =>
         \A cd \in Directions :
            Candidates([boss EXCEPT !.currentDir = cd]) = {} =>
              \A t \in PathTargets(boss) :
                 SnakeBossFindPath([boss EXCEPT !.currentDir = cd], t[1], t[2])
                   = [boss EXCEPT !.currentDir = cd]
    /\ AttemptWithoutCandidate =>
         /\ last.mid.segments = last.pre.boss.segments
         /\ last.mid.currentDir = last.pre.boss.currentDir
         /\ last.mid.state = SNAKE_STATE_TRACKING
         /\ ~last.mid.hasTarget

\* A boss without a valid candidate has attempted a move and is tracking
\* where it was.
C25_Witness ==
    /\ AttemptWithoutCandidate
    /\ last.pre.boss.segmentCount > 1
    /\ last.mid.segments = last.pre.boss.segments
    /\ last.mid.state = SNAKE_STATE_TRACKING

\* The cell next to the head of b in direction d is a wall.
WallAhead(b, d) ==
    WorldIsWallAtPosition(
      StepCell(b.segments[1].gridX, b.segments[1].gridY, d).x * Px(TILE_WIDTH)
        + HalfPx(TILE_WIDTH),
      StepCell(b.segments[1].gridX, b.segments[1].gridY, d).y * Px(TILE_HEIGHT)
        + HalfPx(TILE_HEIGHT))

\* The cell next to the head of b in direction d holds a body segment of b.
BodyAhead(b, d) ==
    \E i \in 2..b.segmentCount :
       /\ b.segments[i].gridX = StepCell(b.segments[1].gridX, b.segments[1].gridY, d).x
       /\ b.segments[i].gridY = StepCell(b.segments[1].gridX, b.segments[1].gridY, d).y

\* The move timer of the boss was due in the SnakeBossUpdate that has just
\* returned, and the cell the step led to was a wall or held a body
\* segment.
AttemptBlocked ==
    /\ UpdatedInMoving
    /\ TimerWasDue
    /\ \/ WallAhead(last.pre.boss, last.pre.boss.nextDir)
       \/ BodyAhead(last.pre.boss, last.pre.boss.nextDir)

\* C26: SnakeBossMove of the boss, in whichever direction, towards a cell
\* that is a wall or holds a body segment returns false and leaves the boss
\* with all its segments as it was; and an update whose step is blocked in
\* this way leaves every segment where it was, in grid and in world
\* coordinates, the segment count as it was, and the boss tracking when its
\* state switch ends.
C26_BlockedStepReplans ==
    /\ pc = "boss" =>
         \A d \in Directions :
            (WallAhead(boss, d) \/ BodyAhead(boss, d)) =>
              \A m \in {SnakeBossMove([boss EXCEPT !.currentDir = d])} :
                 ~m.moved /\ m.boss = [boss EXCEPT !.currentDir = d]
    /\ AttemptBlocked =>
         /\ last.mid.segments = last.pre.boss.segments
         /\ last.mid.segmentCount = last.pre.boss.segmentCount
         /\ last.mid.state = SNAKE_STATE_TRACKING

\* A step towards a free cell that holds a body segment has been blocked,
\* and the boss is tracking where it was.
C26_Witness ==
    /\ AttemptBlocked
    /\ BodyAhead(last.pre.boss, last.pre.boss.nextDir)
    /\ ~WallAhead(last.pre.boss, last.pre.boss.nextDir)
    /\ last.mid.segments = last.pre.boss.segments
    /\ last.mid.state = SNAKE_STATE_TRACKING

\* The grid cell of segment i of b.
SegmentCell(b, i) == <<b.segments[i].gridX, b.segments[i].gridY>>

\* Some segment of b is on the grid cell c.
Occupies(b, c) == \E i \in 1..b.segmentCount : SegmentCell(b, i) = c

\* The boss a has become the boss b by a successful move in direction d:
\* the head is on the neighbour cell, every other segment is where the one
\* before it was, there are as many segments as before, and the cell of
\* the old tail holds a segment exactly if one of the other segments
\* shared it.
MovedFrom(a, b, d) ==
    /\ HeadStepped(a, b, d)
    /\ b.segmentCount = a.segmentCount
    /\ Len(b.segments) = Len(a.segments)
    /\ \A i \in 2..a.segmentCount : SegmentCell(b, i) = SegmentCell(a, i - 1)
    /\ Occupies(b, SegmentCell(a, a.segmentCount))
         <=> \E j \in 1..(a.segmentCount - 1) :
                SegmentCell(a, j) = SegmentCell(a, a.segmentCount)

\* The move timer of the boss was due in the SnakeBossUpdate that has just
\* returned, and the cell the step led to was free.
AttemptSucceeded ==
    /\ UpdatedInMoving
    /\ TimerWasDue
    /\ ~WallAhead(last.pre.boss, last.pre.boss.nextDir)
    /\ ~BodyAhead(last.pre.boss, last.pre.boss.nextDir)

\* C27: SnakeBossMove of the boss, in whichever direction, towards a cell
\* that is neither a wall nor held by a body segment returns true, puts the
\* head on that cell and every other segment i on the cell segment i-1 had,
\* keeps the segment count, and leaves the cell of the old tail empty unless
\* another segment shared it; and so does the step of an update.
C27_BodyFollowsHead ==
    /\ pc = "boss" =>
         \A d \in Directions :
            ~(WallAhead(boss, d) \/ BodyAhead(boss, d)) =>
              \A m \in {SnakeBossMove([boss EXCEPT !.currentDir = d])} :
                 m.moved /\ MovedFrom(boss, m.boss, d)
    /\ AttemptSucceeded => MovedFrom(last.pre.boss, last.mid, last.pre.boss.nextDir)

\* A boss whose last two segments shared a cell has moved: the body has
\* followed the head and the cell of the old tail still holds a segment.
C27_Witness ==
    /\ AttemptSucceeded
    /\ last.pre.boss.segmentCount >= 2
    /\ SegmentCell(last.pre.boss, last.pre.boss.segmentCount)
         = SegmentCell(last.pre.boss, last.pre.boss.segmentCount - 1)
    /\ MovedFrom(last.pre.boss, last.mid, last.pre.boss.nextDir)
    /\ Occupies(last.mid, SegmentCell(last.pre.boss, last.pre.boss.segmentCount))

\* The boss a has become the boss b by the growth of one segment: the
\* segments of a are all there, unchanged and in order, and after them
\* comes one more with the grid and world coordinates of the tail of a.
GrownFrom(a, b) ==
    /\ b.segmentCount = a.segmentCount + 1
    /\ Len(b.segments) = b.segmentCount
    /\ \A i \in 1..a.segmentCount : b.segments[i] = a.segments[i]
    /\ b.segments[b.segmentCount].gridX = a.segments[a.segmentCount].gridX
    /\ b.segments[b.segmentCount].gridY = a.segments[a.segmentCount].gridY
    /\ b.segments[b.segmentCount].worldX = a.segments[a.segmentCount].worldX
    /\ b.segments[b.segmentCount].worldY = a.segments[a.segmentCount].worldY

\* SnakeBossGrow of the boss b gets the memory it asks for, if any.
AllocationSucceeds(b, allocOk) == allocOk \/ b.segmentCount < b.segmentCapacity

\* The SnakeBossUpdate that has just returned has called SnakeBossGrow, and
\* the allocation, if there was one, has succeeded.
GrowCalled ==
    /\ last.op = "SnakeBossUpdate"
    /\ last.pre.boss.segmentCount > 0
    /\ BallHitsHead(SyncEntityToHead(last.mid), last.pre.ball)
    /\ last.pre.ball.state # BALL_STATE_PLAYER
    /\ last.mid.state # SNAKE_STATE_GROWING
    /\ AllocationSucceeds(last.mid, last.allocOk)

\* C28: SnakeBossGrow of a boss with at least one segment, the allocation
\* succeeding, appends exactly one segment, with the grid and world
\* coordinates the tail had before the call, leaves the segments that were
\* there unchanged and in order, and raises segmentCount by exactly 1; so
\* does the growth in an update.
C28_GrowAppendsTailCopy ==
    /\ pc = "boss" /\ boss.segmentCount >= 1 =>
         \A allocOk \in BOOLEAN :
            AllocationSucceeds(boss, allocOk) =>
              GrownFrom(boss, SnakeBossGrow(boss, allocOk))
    /\ GrowCalled => GrownFrom(last.mid, boss)

\* A boss of several segments, the tail on another cell than the head, has
\* grown in an update: the new last segment lies on the tail.
C28_Witness ==
    /\ GrowCalled
    /\ last.mid.segmentCount >= 2
    /\ SegmentCell(last.mid, last.mid.segmentCount) # SegmentCell(last.mid, 1)
    /\ GrownFrom(last.mid, boss)

\* The pairs of segments of b that share a grid cell.
SharedPairs(b) ==
    { p \in (1..b.segmentCount) \X (1..b.segmentCount) :
        p[1] < p[2] /\ SegmentCell(b, p[1]) = SegmentCell(b, p[2]) }

\* The first n segments of b are on pairwise distinct grid cells.
DistinctCells(b, n) ==
    \A i \in 1..n : \A j \in 1..n : i # j => SegmentCell(b, i) # SegmentCell(b, j)

\* b is as a single growth leaves a boss whose segments were on pairwise
\* distinct cells: the last segment lies on the one before it and nothing
\* else is shared.
GrownOnce(b) ==
    /\ b.segmentCount >= 2
    /\ DistinctCells(b, b.segmentCount - 1)
    /\ SegmentCell(b, b.segmentCount) = SegmentCell(b, b.segmentCount - 1)

\* The boss a has become the boss b by a successful move without a new
\* overlap: two segments of b that share a cell are the followers of two
\* segments of a that shared one, the head of b is alone on its cell, and
\* if a had grown once from distinct cells, b is on distinct cells again.
UnfoldedFrom(a, b) ==
    /\ \A p \in SharedPairs(b) : p[1] >= 2 /\ <<p[1] - 1, p[2] - 1>> \in SharedPairs(a)
    /\ \A j \in 2..b.segmentCount : SegmentCell(b, j) # SegmentCell(b, 1)
    /\ GrownOnce(a) => DistinctCells(b, b.segmentCount)

\* The SnakeBossUpdate that has just returned has taken a segment off the
\* boss.
ShrinkDone ==
    /\ last.op = "SnakeBossUpdate"
    /\ boss.segmentCount < last.mid.segmentCount

\* C29: a successful SnakeBossMove, in whichever direction, and a successful
\* SnakeBossShrink put no two segments on one cell that were not on one cell
\* before; after a successful move the head is on another cell than every
\* body segment; and a boss that has grown once from pairwise distinct
\* cells is on pairwise distinct cells again after its next successful move.
C29_UnfoldsWithoutOverlap ==
    /\ pc = "boss" =>
         /\ \A d \in Directions :
               \A m \in {SnakeBossMove([boss EXCEPT !.currentDir = d])} :
                  m.moved => UnfoldedFrom(boss, m.boss)
         /\ \A r \in {SnakeBossShrink(boss)} :
               r.ok => SharedPairs(r.boss) \subseteq SharedPairs(boss)
    /\ AttemptSucceeded => UnfoldedFrom(last.pre.boss, last.mid)
    /\ ShrinkDone => SharedPairs(boss) \subseteq SharedPairs(last.mid)

\* A boss that had grown once from distinct cells has moved, and all its
\* segments are on distinct cells again.
C29_Witness ==
    /\ AttemptSucceeded
    /\ GrownOnce(last.pre.boss)
    /\ SharedPairs(last.pre.boss) # {}
    /\ DistinctCells(last.mid, last.mid.segmentCount)

\* The number of steps along the grid between the cells c and e.
GridDistance(c, e) == Abs(c[1] - e[1]) + Abs(c[2] - e[2])

\* Every segment of b but the head lies on the cell of the segment before
\* it or on one of the four cells next to it.
Contiguous(b) ==
    \A i \in 1..(b.segmentCount - 1) :
        GridDistance(SegmentCell(b, i), SegmentCell(b, i + 1)) <= 1

\* C30: in every state of the game, whatever creation, moves, growths,
\* shrinks and position resets of the match have led to it, each two
\* consecutive segments of the boss are on the same cell or on two cells
\* that are neighbours in one of the four directions.
C30_BodyContiguous ==
    /\ Contiguous(boss)
    /\ last.op = "SnakeBossUpdate" => Contiguous(last.mid)

\* A boss of three segments or more has turned: it has just moved, its
\* head is in another row than its tail, and the body is contiguous.
C30_Witness ==
    /\ AttemptSucceeded
    /\ boss.segmentCount >= 3
    /\ boss.segments[1].gridY # boss.segments[boss.segmentCount].gridY
    /\ Contiguous(boss)

\* C31: a successful SnakeBossShrink never makes the boss faster: after the
\* update that took a segment off the boss, and after a successful
\* SnakeBossShrink of the boss as it is, moveInterval is at least what it
\* was before.
C31_AsStated ==
    /\ ShrinkDone => boss.moveInterval >= last.mid.moveInterval
    /\ pc = "boss" =>
         \A r \in {SnakeBossShrink(boss)} :
            r.ok => r.boss.moveInterval >= boss.moveInterval

\* C32: in every state of the game moveInterval lies between
\* SNAKE_MIN_MOVE_INTERVAL and SNAKE_INITIAL_MOVE_INTERVAL, and a growth
\* lowers it by SNAKE_INTERVAL_DECREASE unless it is at the minimum already.
C32_AsStated ==
    /\ boss.segmentCount > 0 =>
         /\ SNAKE_MIN_MOVE_INTERVAL <= boss.moveInterval
         /\ boss.moveInterval <= SNAKE_INITIAL_MOVE_INTERVAL
    /\ GrowCalled =>
         boss.moveInterval =
            IF last.mid.moveInterval = SNAKE_MIN_MOVE_INTERVAL
            THEN last.mid.moveInterval
            ELSE last.mid.moveInterval - SNAKE_INTERVAL_DECREASE

\* C33: in every state the world coordinates of every segment of the boss
\* are the ones SnakeBossUpdateSegments computes from its grid coordinates.
C33_AsStated ==
    /\ boss.segmentCount > 0 => SnakeBossUpdateSegments(boss).segments = boss.segments
    /\ last.op = "SnakeBossUpdate" /\ last.mid.segmentCount > 0 =>
         SnakeBossUpdateSegments(last.mid).segments = last.mid.segments

\* Segment i of b is on a grid cell that the wall query reports as a wall.
SegmentOnWall(b, i) ==
    WorldIsWallAtPosition(b.segments[i].gridX * Px(TILE_WIDTH) + HalfPx(TILE_WIDTH),
                          b.segments[i].gridY * Px(TILE_HEIGHT) + HalfPx(TILE_HEIGHT))

\* The state is the one GameInitialize leaves: the boss has been created
\* five cells to the right of the centre of the world.
AsGameInitialize ==
    /\ last.op = "GameInitialize"
    /\ mode = "hole"
    /\ boss.segments[1].gridX = WORLD_WIDTH \div 2 + 5
    /\ boss.segments[1].gridY = WORLD_HEIGHT \div 2

\* C34: in the game as GameInitialize sets it up no segment of the boss is
\* on a wall cell at the start, and the cell the head has entered in an
\* update is not a wall cell.
C34_AsStated ==
    /\ AsGameInitialize => \A i \in 1..boss.segmentCount : ~SegmentOnWall(boss, i)
    /\ AttemptSucceeded => ~SegmentOnWall(last.mid, 1)

\* The step of the win hole from one state to the next: from idle to the
\* state the owner of the caught ball calls for, from the scored states to
\* the hold with the time at zero, and from the hold to idle, the ball
\* ejected, exactly when the time held with this frame's time added has
\* reached WIN_NEUTRAL_BALL_HOLD_TIME.
HoleStep ==
    CASE win.state = WIN_STATE_IDLE ->
           /\ win'.state = WIN_STATE_PLAYER_SCORED => ball.state = BALL_STATE_PLAYER
           /\ win'.state = WIN_STATE_ENEMY_SCORED => ball.state = BALL_STATE_SNAKE
           /\ win'.state = WIN_STATE_NEUTRAL_HOLD =>
                /\ ball.state \notin {BALL_STATE_PLAYER, BALL_STATE_SNAKE}
                /\ win'.stateTimer = 0
           /\ win'.state # WIN_STATE_IDLE <=> WinConditionCheckBallInHole(win, ball)
      [] win.state \in {WIN_STATE_PLAYER_SCORED, WIN_STATE_ENEMY_SCORED} ->
           /\ win'.state = WIN_STATE_NEUTRAL_HOLD
           /\ win'.stateTimer = 0
      [] win.state = WIN_STATE_NEUTRAL_HOLD ->
           IF win.stateTimer + dt' >= WIN_NEUTRAL_BALL_HOLD_TIME
           THEN /\ win'.state = WIN_STATE_IDLE
                /\ ~WinConditionCheckBallInHole(win', ball')
                /\ ball'.speedX # 0 \/ ball'.speedY # 0
           ELSE /\ win'.state = WIN_STATE_NEUTRAL_HOLD
                /\ win'.stateTimer = win.stateTimer + dt'
                /\ ball'.x = win.x /\ ball'.y = win.y
                /\ ball'.speedX = 0 /\ ball'.speedY = 0

\* C35: the win hole goes from idle to player-scored, enemy-scored or, for
\* a ball of neither side, the hold; from a scored state to the hold; from
\* the hold to idle, at the first update at which the time held has
\* reached WIN_NEUTRAL_BALL_HOLD_TIME and not before; and once it has left
\* idle it is idle again after finitely many updates.
C35_HoleCycle ==
    /\ [][HoleStep]_vars
    /\ (win.state # WIN_STATE_IDLE) ~> (win.state = WIN_STATE_IDLE)

\* The hole has held the ball for exactly WIN_NEUTRAL_BALL_HOLD_TIME and
\* has ejected it in the update that has just returned.
C35_Witness ==
    /\ last.op = "WinConditionUpdate"
    /\ last.pre.win.state = WIN_STATE_NEUTRAL_HOLD
    /\ last.pre.win.stateTimer + dt = WIN_NEUTRAL_BALL_HOLD_TIME
    /\ win.state = WIN_STATE_IDLE
    /\ ~WinConditionCheckBallInHole(win, ball)

\* What a WinConditionUpdate does to the player and the boss: the score of
\* the player's ball or of the snake's ball is applied in the update that
\* catches the ball, to the boss or to the player, and no update of a hole
\* that is not idle, and no catch of a ball of neither side, touches them.
ScoreStep ==
    IF win.state = WIN_STATE_IDLE /\ WinConditionCheckBallInHole(win, ball)
       /\ ball.state = BALL_STATE_PLAYER
    THEN boss' = WinConditionHandlePlayerScore(boss) /\ player' = player
    ELSE IF win.state = WIN_STATE_IDLE /\ WinConditionCheckBallInHole(win, ball)
            /\ ball.state = BALL_STATE_SNAKE
    THEN player' = WinConditionHandleEnemyScore(player) /\ boss' = boss
    ELSE player' = player /\ boss' = boss

\* C36: a ball that enters the win hole has its score applied once, in the
\* update that takes the hole out of idle; until the hole is idle again
\* neither score handler acts, and none acts for a ball that was neutral
\* when it entered.
C36_ScoreOnce == [][pc = "win" /\ mode = "hole" => ScoreStep]_vars

\* The enemy has scored, the player has lost WIN_ENEMY_DAMAGE_TO_PLAYER, and
\* the update that has taken the hole on to the hold has left the player
\* as it was.
C36_Witness ==
    /\ last.op = "WinConditionUpdate"
    /\ last.pre.win.state = WIN_STATE_ENEMY_SCORED
    /\ win.state = WIN_STATE_NEUTRAL_HOLD
    /\ player = last.pre.player
    /\ player.currentHealth = player.maxHealth - WIN_ENEMY_DAMAGE_TO_PLAYER

\* C37: in every state of the game the health of the player is at least 0
\* and at most maxHealth, whatever contacts with the boss, scores of the
\* enemy, level-ups and resets have led to it.
C37_HealthInRange ==
    /\ 0 <= player.currentHealth
    /\ player.currentHealth <= player.maxHealth
    /\ \A q \in {PlayerAwardXP(player, PLAYER_XP_PER_HIT),
                  PlayerAwardXP(player, player.maxXP),
                  PlayerReset(player, player.x, player.y),
                  WinConditionHandleEnemyScore(player),
                  SnakeBossHandlePlayerCollision(boss, player)} :
          0 <= q.currentHealth /\ q.currentHealth <= q.maxHealth

\* The boss has touched a player who had less health than the contact
\* costs, and the health is 0.
C37_Witness ==
    /\ last.op = "SnakeBossUpdate"
    /\ last.pre.player.currentHealth > 0
    /\ last.pre.player.currentHealth < 10
    /\ player.currentHealth = 0

\* C38: the ball BallCreate has returned is neutral: in the state
\* GameInitialize leaves, and until something has touched the ball, its
\* ownership is BALL_STATE_NEUTRAL.
C38_AsStated ==
    last.op = "GameInitialize" => ball.state = BALL_STATE_NEUTRAL

\* The SnakeBossUpdate that has just returned has called SnakeBossGrow for
\* a head hit, the segment array was full and malloc has failed.
GrowFailed ==
    /\ last.op = "SnakeBossUpdate"
    /\ last.pre.boss.segmentCount > 0
    /\ BallHitsHead(SyncEntityToHead(last.mid), last.pre.ball)
    /\ last.pre.ball.state # BALL_STATE_PLAYER
    /\ last.mid.state # SNAKE_STATE_GROWING
    /\ ~AllocationSucceeds(last.mid, last.allocOk)

\* C39: a growth on a head hit whose allocation fails leaves nothing
\* behind: segmentCount, segmentCapacity, the segments, moveInterval and
\* the state of the boss, and the ownership of the ball, are what they were
\* before the hit.
C39_AsStated ==
    GrowFailed =>
      /\ boss.segmentCount = last.mid.segmentCount
      /\ boss.segmentCapacity = last.mid.segmentCapacity
      /\ boss.segments = last.mid.segments
      /\ boss.moveInterval = last.mid.moveInterval
      /\ boss.state = last.mid.state
      /\ ball.state = last.pre.ball.state

\* The boss a has become the boss b by a growth that got its memory: the
\* capacity has doubled if the array of a was full and is unchanged if not,
\* and the slot of the new segment, segmentCount of a in the array of the
\* program, is inside the array of b.
CapacityAfterGrowth(a, b) ==
    /\ b.segmentCapacity = IF a.segmentCount >= a.segmentCapacity
                           THEN 2 * a.segmentCapacity ELSE a.segmentCapacity
    /\ a.segmentCount < b.segmentCapacity
    /\ b.segmentCount = a.segmentCount + 1

\* C40: in every state of a boss created with one segment or more,
\* 1 <= segmentCount <= segmentCapacity; a growth that gets its memory
\* writes the new segment inside the array, doubles segmentCapacity if it
\* found the array full and leaves it as it is if not; and a growth whose
\* allocation fails leaves the capacity as it is.
C40_CapacityCoversSegments ==
    /\ 1 <= boss.segmentCount
    /\ boss.segmentCount <= boss.segmentCapacity
    /\ Len(boss.segments) = boss.segmentCount
    /\ pc = "boss" =>
         \A allocOk \in BOOLEAN :
            IF AllocationSucceeds(boss, allocOk)
            THEN CapacityAfterGrowth(boss, SnakeBossGrow(boss, allocOk))
            ELSE SnakeBossGrow(boss, allocOk).segmentCapacity = boss.segmentCapacity
    /\ GrowCalled => CapacityAfterGrowth(last.mid, boss)
    /\ GrowFailed => boss.segmentCapacity = last.mid.segmentCapacity

\* A boss of two segments or more whose array was full has grown in an
\* update, and the capacity is twice what it was.
C40_Witness ==
    /\ GrowCalled
    /\ last.mid.segmentCount >= 2
    /\ last.mid.segmentCount = last.mid.segmentCapacity
    /\ boss.segmentCapacity = 2 * last.mid.segmentCapacity
    /\ boss.segmentCount <= boss.segmentCapacity

====
